---------------------------- MODULE Spec2Model ----------------------------
(***************************************************************************)
(* A model of the openclaw-commander terminal dashboard: the Bubble Tea    *)
(* Model (src/unnamed/part_002, lines 1-1640) with its Update / handleKey  *)
(* handlers, and the transcript normalizer and formatter of                *)
(* src/internal/data/types.go.                                             *)
(*                                                                         *)
(* Strings are sequences of one-character strings, so that len, prefix,    *)
(* suffix and substring tests are computed.  A log content is kept in its  *)
(* strings.Split(content, "\n") form: a non-empty sequence of lines, the   *)
(* empty string being the single empty line.  A line is a record           *)
(* [k, t, a, n]: a kind, a text token, an argument token and its length    *)
(* in bytes.                                                               *)
(***************************************************************************)
EXTENDS Integers, Sequences, FiniteSets, Bags, TLC

(***************************************************************************)
(* Bounds of the model.                                                    *)
(***************************************************************************)
\* most characters the environment has typed into the input fields
MaxText == 1
\* the same while it fills the spawn form
MaxForm == 2
\* most intents (send, spawn, kill, log fetch, model list) awaiting a result
MaxInFlight == 2
\* most lines of log content that replies are appended to
MaxLogLines == 6
\* most tick timers pending at once
MaxTimers == 5

(***************************************************************************)
(* Program constants.                                                      *)
(***************************************************************************)
tabSessions == 0
tabProcesses == 1
tabHistory == 2
panelList == 0
panelLogs == 1
spawnFieldPrompt == 0
spawnFieldModel == 1
spawnFieldLabel == 2
spawnFieldCount == 3
VerboseSummary == 0
VerboseFull == 1
VerboseOff == 2
\* logWidth never returns less than this
MinLogWidth == 20
\* seconds between two log fetches issued by the log tick
LogThrottle == 2

(***************************************************************************)
(* Small helpers.                                                          *)
(***************************************************************************)
max(a, b) == IF a > b THEN a ELSE b

min(a, b) == IF a < b THEN a ELSE b

\* Go's integer division on the non-negative values the model uses
Div(a, b) == a \div b

HasSuffix(s, suf) ==
    /\ Len(s) >= Len(suf)
    /\ SubSeq(s, Len(s) - Len(suf) + 1, Len(s)) = suf

\* strings.Contains
Contains(s, sub) ==
    \E i \in 0..(Len(s) - Len(sub)) : SubSeq(s, i + 1, i + Len(sub)) = sub

\* strings.Index: the first position (from 0) of sub in s, -1 when absent
Index(s, sub) ==
    IF Contains(s, sub)
    THEN CHOOSE i \in 0..(Len(s) - Len(sub)) :
            /\ SubSeq(s, i + 1, i + Len(sub)) = sub
            /\ \A j \in 0..(i - 1) : SubSeq(s, j + 1, j + Len(sub)) # sub
    ELSE -1

\* strings.ToLower on the characters the model uses
LowerChar(c) ==
    CASE c = "S" -> "s"
      [] c = "M" -> "m"
      [] OTHER -> c

ToLower(s) == [i \in 1..Len(s) |-> LowerChar(s[i])]

RECURSIVE SumLen(_)
SumLen(lines) ==
    IF lines = <<>> THEN 0 ELSE Head(lines).n + SumLen(Tail(lines))

RECURSIVE FlattenSeq(_)
FlattenSeq(ss) ==
    IF ss = <<>> THEN <<>> ELSE Head(ss) \o FlattenSeq(Tail(ss))

SelectIdx(s, Test(_)) ==
    LET F[i \in 0..Len(s)] ==
            IF i = 0 THEN <<>>
            ELSE IF Test(s[i]) THEN Append(F[i - 1], s[i]) ELSE F[i - 1]
    IN  F[Len(s)]


(***************************************************************************)
(* The data a poll can return.  Session, Process and ArchivedRun carry the *)
(* fields the handlers read.                                               *)
(***************************************************************************)
sMain == <<"m", "a", "i", "n">>

sColonMain == <<":", "m", "a", "i", "n">>

Session(key, kind, channel, label, sid) ==
    [Key |-> key, Kind |-> kind, Channel |-> channel, DisplayName |-> <<>>,
     Label |-> label, Model |-> <<"o">>, SessionID |-> sid]

\* the root session, recognised by its key
SessRoot == Session(<<"a">> \o sColonMain, <<"d">>, <<"s", "i", "g">>, <<>>, <<"r", "1">>)

\* a session recognised by its kind
SessKind == Session(<<"k">>, sMain, <<>>, <<>>, <<"r", "2">>)

\* a sub-agent session
SessSub == Session(<<"x">>, <<"s", "u", "b">>, <<"m", "t", "x">>, <<"S", "1">>, <<"c", "3">>)

\* a root session whose record carries no sessionId
SessNoID == Session(<<"b">> \o sColonMain, <<>>, <<>>, <<>>, <<>>)

SessionLists ==
    { <<>>, <<SessSub>>, <<SessSub, SessRoot>>, <<SessKind, SessSub>>,
      <<SessNoID, SessRoot>> }

Process(name, command) == [SessionName |-> name, Command |-> command]

ProcessLists ==
    { <<>>, <<Process(<<"p", "1">>, <<"m", "k">>)>>,
      <<Process(<<"p", "1">>, <<"m", "k">>), Process(<<"p", "2">>, <<"g", "o">>)>> }

ArchivedRun(sid, label, mod, path) ==
    [SessionID |-> sid, Label |-> label, ModifiedAt |-> mod, Path |-> path]

ArchivedLists == { <<>>, <<ArchivedRun(<<"z", "9">>, <<"o", "l", "d">>, 1, <<"/", "z", "9">>)>> }

(***************************************************************************)
(* The transcript directory and FetchArchivedRuns (internal/data/types.go, *)
(* lines 933-981).  A file name is a sequence of characters that ends in   *)
(* its extension, ".jsonl" being one character of the model.               *)
(***************************************************************************)
sJsonl == <<".jsonl">>

\* an entry of the directory: its name, whether it is a directory, whether
\* it is gone when Info is called, its modification time and the label
\* readTranscriptLabel finds in it
DirEntry(name, isDir, gone, mod, label) ==
    [Name |-> name, IsDir |-> isDir, Gone |-> gone, ModTime |-> mod, Label |-> label]

\* strings.TrimSuffix(name, ".jsonl")
TrimSuffix(s, suf) == IF HasSuffix(s, suf) THEN SubSeq(s, 1, Len(s) - Len(suf)) ELSE s

\* the sequences that hold each element of the set once
Orderings(set) ==
    {s \in [1..Cardinality(set) -> set] : \A i, j \in 1..Cardinality(set) : s[i] = s[j] => i = j}

\* a listing that keeps the transcripts of the active sessions
FetchArchivedRuns_KeepsActive(activeSessions, dir) ==
    IF ~dir.ok THEN {<<>>}
    ELSE LET kept == {e \in dir.entries :
                         ~e.IsDir /\ HasSuffix(e.Name, sJsonl) /\ ~e.Gone}
             runs == {ArchivedRun(TrimSuffix(e.Name, sJsonl), e.Label, e.ModTime,
                                  <<"/">> \o e.Name) : e \in kept}
         IN  {s \in Orderings(runs) :
                 \A i \in 1..(Len(s) - 1) : s[i].ModifiedAt >= s[i + 1].ModifiedAt}

\* lines 935-981: the results FetchArchivedRuns can return for the active
\* sessions and a directory [ok, entries].  A directory that cannot be read
\* gives no run; sort.Slice leaves runs of one modification time in any
\* order.
FetchArchivedRuns(activeSessions, dir) ==
    IF ~dir.ok THEN {<<>>}
    ELSE LET activeIDs == {activeSessions[i].SessionID : i \in 1..Len(activeSessions)}
             kept == {e \in dir.entries :
                         /\ ~e.IsDir
                         /\ HasSuffix(e.Name, sJsonl)
                         /\ TrimSuffix(e.Name, sJsonl) \notin activeIDs
                         /\ ~e.Gone}
             runs == {ArchivedRun(TrimSuffix(e.Name, sJsonl), e.Label, e.ModTime,
                                  <<"/">> \o e.Name) : e \in kept}
         IN  {s \in Orderings(runs) :
                 \A i \in 1..(Len(s) - 1) : s[i].ModifiedAt >= s[i + 1].ModifiedAt}

ModelOption(id, alias) == [ID |-> id, Alias |-> alias]

\* the configured models a model-list fetch can return
ModelLists ==
    { <<>>, <<ModelOption(<<"g", "p", "t">>, <<>>), ModelOption(<<"o", "p">>, <<"b", "i", "g">>)>> }

sDefault == <<"(", "d", "e", "f", "a", "u", "l", "t", ")">>

(***************************************************************************)
(* Lines and contents.                                                     *)
(***************************************************************************)
Line(k, t, a, n) == [k |-> k, t |-> t, a |-> a, n |-> n]

Blank == Line("text", "", "", 0)

TextLine(t, n) == Line("text", t, "", n)

\* the content "" in split form
EmptyContent == <<Blank>>

\* strings.Join(lines, "\n") read back in split form
Join(lines) == IF lines = <<>> THEN EmptyContent ELSE lines

\* len(content): the bytes of the lines and of the newlines between them
ByteLen(content) == SumLen(content) + Len(content) - 1

\* a string builder's text, every line of which ends in "\n", in split form
BuilderString(lines) == IF lines = <<>> THEN EmptyContent ELSE Append(lines, Blank)

la == TextLine("alpha", 5)

lb == TextLine("bravo", 5)

lc == TextLine("charl", 5)

ld == TextLine("delta", 5)

\* one raw line longer than any log width of the model
lLong == TextLine("long", 70)

\* a line holding a user-message marker ("user: hi")
lUser == Line("marker", "hi", "", 8)

\* three box-drawing characters (9 bytes) as a process log may hold them
lBox == Line("box", "box", "", 9)

\* "a\rb": a bare carriage return inside a line
lCR == Line("cr", "a", "b", 3)

\* the texts a process log can hold
RawContents ==
    { EmptyContent, <<la>>, <<lLong>>, <<la, lb, lc, ld>>,
      <<la, lb, lc, ld, la, lb>>, <<lUser, la, lb>>, <<lLong, la, lb, lc, ld>>,
      <<lCR, lBox>> }

\* the replies an agent can send to a message
Replies == { EmptyContent, <<lBox, lCR>> }

(***************************************************************************)
(* History messages and their formatting (internal/data/types.go).         *)
(***************************************************************************)
HistoryMessage(role, model, text, name, args, err) ==
    [Role |-> role, Model |-> model, Text |-> text, ToolName |-> name,
     ToolArgs |-> args, ToolError |-> err]

UserMsg(text) == HistoryMessage("user", "", text, "", "", FALSE)

AssistantMsg(text) == HistoryMessage("assistant", "opus", text, "", "", FALSE)

ToolUseMsg(name, args) == HistoryMessage("toolUse", "opus", <<>>, name, args, FALSE)

ToolResultMsg(name, args, text, err) == HistoryMessage("toolResult", "", text, name, args, err)

\* strings.ToUpper on the role names
ToUpper(role) ==
    CASE role = "user" -> "USER"
      [] role = "assistant" -> "ASSISTANT"
      [] role = "toolUse" -> "TOOLUSE"
      [] role = "toolResult" -> "TOOLRESULT"
      [] role = "tool" -> "TOOL"
      [] OTHER -> role

\* len of the tokens the model uses
StrLen(t) ==
    CASE t = "" -> 0
      [] t \in {"USER", "TOOL", "opus", "read", "exec", "tool"} -> 4
      [] t \in {"ASSISTANT"} -> 9
      [] t \in {"TOOLUSE"} -> 7
      [] t \in {"TOOLRESULT"} -> 10
      [] t \in {"ls", "wc"} -> 2
      [] OTHER -> 3

IsToolRole(role) == role \in {"toolResult", "toolUse", "tool"}

\* the verb of the one-line summary of a tool
SummaryVerb(name) ==
    CASE name \in {"write", "file_write"} -> "wrote"
      [] name \in {"read", "file_read"} -> "read"
      [] name \in {"edit", "file_edit"} -> "edit"
      [] name \in {"exec", "bash", "shell"} -> "ran"
      [] name \in {"web_search", "search"} -> "searched"
      [] name \in {"web_fetch", "fetch"} -> "fetched"
      [] OTHER -> name

\* a command of two lines, as the arguments of a tool call can hold it
sTwoLines == "ls\nwc"

\* strings.Split(args, "\n") on the argument summaries of the model: the
\* summary of a tool's arguments is the argument's value as it is (lines
\* 604-611), newlines included
ArgsLines(args) == IF args = sTwoLines THEN <<"ls", "wc">> ELSE <<args>>

\* " <status> <emoji> <summary>" of one tool result, up to the first
\* newline of the summary
SummaryLine(msg) ==
    LET name == IF msg.ToolName = "" THEN "tool" ELSE msg.ToolName
    IN  Line(IF msg.ToolError THEN "tool_err" ELSE "tool_ok", SummaryVerb(name),
             msg.ToolArgs, 11 + StrLen(SummaryVerb(name)) + StrLen(ArgsLines(msg.ToolArgs)[1]))

\* lines 850-868: the summary holds the arguments as they are, so what
\* follows a newline in them is written as further lines
SummaryRest(msg) ==
    LET parts == ArgsLines(msg.ToolArgs)
    IN  [i \in 1..(Len(parts) - 1) |-> Line("summary_rest", parts[i + 1], "", StrLen(parts[i + 1]))]

\* the first 6 lines of an error text, indented, and an ellipsis when cut
ErrorLines(msg) ==
    IF msg.ToolError /\ msg.Text # <<>>
    THEN LET limit == min(6, Len(msg.Text))
         IN  [i \in 1..limit |-> Line("errtext", msg.Text[i].t, "", msg.Text[i].n + 3)]
             \o (IF Len(msg.Text) > 6 THEN <<Line("ellipsis", "", "", 6)>> ELSE <<>>)
    ELSE <<>>

\* flushToolBatch, first loop: each result takes the oldest unused toolUse
\* arguments of the batch, else keeps its own
PairBatch(batch) ==
    LET F[i \in 0..Len(batch)] ==
            IF i = 0 THEN [useArgs |-> <<>>, results |-> <<>>]
            ELSE LET p == F[i - 1]
                     msg == batch[i]
                 IN  IF msg.Role = "toolUse"
                     THEN [p EXCEPT !.useArgs = Append(@, msg.ToolArgs)]
                     ELSE IF msg.Role \in {"toolResult", "tool"}
                     THEN IF Len(p.useArgs) > 0
                          THEN [useArgs |-> Tail(p.useArgs),
                                results |-> Append(p.results,
                                               [msg EXCEPT !.ToolArgs = Head(p.useArgs)])]
                          ELSE [p EXCEPT !.results = Append(@, msg)]
                     ELSE p
    IN  F[Len(batch)].results

flushToolBatch(batch) ==
    LET results == PairBatch(batch)
    IN  FlattenSeq([i \in 1..Len(results) |->
                       <<SummaryLine(results[i])>> \o SummaryRest(results[i])
                       \o ErrorLines(results[i])])

\* "--- ROLE (arg) ---" drawn with box characters
Banner(role, arg) ==
    Line("banner", ToUpper(role), arg,
         20 + StrLen(ToUpper(role)) + (IF arg = "" THEN 0 ELSE StrLen(arg) + 3))

\* a formatting that shows tool messages in full at verbosity Off
FormatLines_OffShowsTools(msgs, verbose) ==
    LET F[i \in 0..Len(msgs)] ==
            IF i = 0 THEN [sb |-> <<>>, toolBatch |-> <<>>]
            ELSE LET p == F[i - 1]
                     msg == msgs[i]
                 IN  IF IsToolRole(msg.Role)
                     THEN CASE verbose = VerboseSummary ->
                                 [p EXCEPT !.toolBatch = Append(@, msg)]
                            [] OTHER ->
                                 [sb |-> p.sb \o flushToolBatch(p.toolBatch)
                                         \o <<Banner(msg.Role, msg.ToolName)>>
                                         \o msg.Text \o <<Blank>>,
                                  toolBatch |-> <<>>]
                     ELSE [sb |-> p.sb
                                  \o (IF verbose = VerboseSummary
                                      THEN flushToolBatch(p.toolBatch) ELSE <<>>)
                                  \o <<Banner(msg.Role, msg.Model)>>
                                  \o msg.Text \o <<Blank>>,
                           toolBatch |-> IF verbose = VerboseSummary
                                         THEN <<>> ELSE p.toolBatch]
        last == F[Len(msgs)]
    IN  last.sb \o (IF verbose = VerboseSummary
                    THEN flushToolBatch(last.toolBatch) ELSE <<>>)

\* the lines FormatHistory writes to its string builder
FormatLines(msgs, verbose) ==
    LET F[i \in 0..Len(msgs)] ==
            IF i = 0 THEN [sb |-> <<>>, toolBatch |-> <<>>]
            ELSE LET p == F[i - 1]
                     msg == msgs[i]
                 IN  IF IsToolRole(msg.Role)
                     THEN CASE verbose = VerboseOff -> p
                            [] verbose = VerboseSummary ->
                                 [p EXCEPT !.toolBatch = Append(@, msg)]
                            [] OTHER ->
                                 [sb |-> p.sb \o flushToolBatch(p.toolBatch)
                                         \o <<Banner(msg.Role, msg.ToolName)>>
                                         \o msg.Text \o <<Blank>>,
                                  toolBatch |-> <<>>]
                     ELSE [sb |-> p.sb
                                  \o (IF verbose = VerboseSummary
                                      THEN flushToolBatch(p.toolBatch) ELSE <<>>)
                                  \o <<Banner(msg.Role, msg.Model)>>
                                  \o msg.Text \o <<Blank>>,
                           toolBatch |-> IF verbose = VerboseSummary
                                         THEN <<>> ELSE p.toolBatch]
        last == F[Len(msgs)]
    IN  last.sb \o (IF verbose = VerboseSummary
                    THEN flushToolBatch(last.toolBatch) ELSE <<>>)

FormatHistory(msgs, verbose) == BuilderString(FormatLines(msgs, verbose))

(***************************************************************************)
(* The two record formats (internal/data/types.go).  A record is what one  *)
(* element of the history API's messages, or one line of a transcript      *)
(* file, decodes to: its role, its text blocks, the toolCall blocks of an  *)
(* assistant record, and a tool result's tool name, error flag and the     *)
(* argument summary extractToolArgs finds in the record itself.            *)
(***************************************************************************)
ToolCall(name, args) == [Name |-> name, Args |-> args]

Record(role, model, text, calls, name, args, err) ==
    [role |-> role, model |-> model, text |-> text, calls |-> calls,
     toolName |-> name, args |-> args, isError |-> err]

UserRec(text) == Record("user", "", text, <<>>, "", "", FALSE)

AssistantRec(text, calls) == Record("assistant", "opus", text, calls, "", "", FALSE)

ResultRec(name, args, text, err) == Record("toolResult", "", text, <<>>, name, args, err)

\* lines 499-594: the messages of a history API response.  An assistant
\* record gives one toolUse message per toolCall block, then its text.
FetchSessionMessages(records) ==
    LET Msgs(r) ==
            IF r.role = "assistant"
            THEN [i \in 1..Len(r.calls) |->
                     HistoryMessage("toolUse", r.model, <<>>, r.calls[i].Name,
                                    r.calls[i].Args, FALSE)]
                 \o (IF r.text # <<>>
                     THEN <<HistoryMessage("assistant", r.model, r.text, "", "", FALSE)>>
                     ELSE IF r.calls = <<>>
                     THEN <<HistoryMessage("assistant", r.model, <<>>, "", "", FALSE)>>
                     ELSE <<>>)
            ELSE IF IsToolRole(r.role)
            THEN <<HistoryMessage(r.role, r.model, r.text, r.toolName, r.args, r.isError)>>
            ELSE <<HistoryMessage(r.role, r.model, r.text, "", "", FALSE)>>
    IN  FlattenSeq([i \in 1..Len(records) |-> Msgs(records[i])])

\* lines 1196-1345: the messages of a transcript file.  The toolCall blocks
\* of the assistant records queue up in pendingToolCalls, and each tool
\* result takes the arguments (and, unnamed, the name) of the oldest one.
ReadTranscriptMessages(records) ==
    LET F[i \in 0..Len(records)] ==
            IF i = 0 THEN [msgs |-> <<>>, pendingToolCalls |-> <<>>]
            ELSE LET p == F[i - 1]
                     r == records[i]
                 IN  IF r.role = "assistant"
                     THEN [msgs |-> Append(p.msgs,
                                       HistoryMessage(r.role, r.model, r.text, "", "", FALSE)),
                           pendingToolCalls |-> p.pendingToolCalls \o r.calls]
                     ELSE IF r.role \in {"toolResult", "tool"}
                     THEN IF Len(p.pendingToolCalls) > 0
                          THEN LET call == Head(p.pendingToolCalls)
                               IN  [msgs |-> Append(p.msgs,
                                                HistoryMessage(r.role, r.model, r.text,
                                                    IF r.toolName = "" THEN call.Name
                                                    ELSE r.toolName,
                                                    call.Args, r.isError)),
                                    pendingToolCalls |-> Tail(p.pendingToolCalls)]
                          ELSE [p EXCEPT !.msgs =
                                   Append(@, HistoryMessage(r.role, r.model, r.text,
                                                 r.toolName, r.args, r.isError))]
                     ELSE [p EXCEPT !.msgs =
                              Append(@, HistoryMessage(r.role, r.model, r.text, "", "", FALSE))]
    IN  F[Len(records)].msgs

\* lines 1044-1193: the same parse, formatted
ReadTranscriptVerbose(records, verbose) ==
    FormatHistory(ReadTranscriptMessages(records), verbose)

(***************************************************************************)
(* The content pipeline of the dashboard (part_002, lines 252-381).        *)
(***************************************************************************)
\* cleanLogContent on one line: "\r" splits the line, box-drawing characters
\* become one ASCII byte each, everything else passes
CleanLine(l) ==
    CASE l.k = "cr" -> <<TextLine(l.t, 1), TextLine(l.a, 1)>>
      [] l.k = "box" -> <<TextLine("+++", 3)>>
      [] l.k = "banner" -> <<Line("banner_ascii", l.t, l.a, l.n - 12)>>
      [] OTHER -> <<l>>

cleanLogContent(content) == FlattenSeq([i \in 1..Len(content) |-> CleanLine(content[i])])

(***************************************************************************)
(* cleanLogContent on the bytes of a text (part_002, lines 254-290, and    *)
(* internal/data/ansi.go).  A text is a sequence of characters; "ESC",     *)
(* "BEL", "CR", "LF" and "BOX" name the bytes 0x1b, 0x07, "\r", "\n" and   *)
(* the rune U+2500.                                                        *)
(***************************************************************************)
Digits == {"0", "1", "2", "3", "4", "5", "6", "7", "8", "9"}

AsciiLetters ==
    {"a", "b", "c", "d", "e", "f", "g", "h", "i", "j", "k", "l", "m", "n", "o",
     "p", "q", "r", "s", "t", "u", "v", "w", "x", "y", "z",
     "A", "B", "C", "D", "E", "F", "G", "H", "I", "J", "K", "L", "M", "N", "O",
     "P", "Q", "R", "S", "T", "U", "V", "W", "X", "Y", "Z"}

\* the first position from i on whose character is not in (stop FALSE) or
\* is in (stop TRUE) the class, Len(s)+1 when there is none
Scan(s, i, class, stop) ==
    LET hits == {j \in i..Len(s) : (s[j] \in class) = stop}
    IN  IF hits = {} THEN Len(s) + 1 ELSE CHOOSE j \in hits : \A k \in hits : j <= k

\* ansi.go line 6: the length of the match of ansiRe that starts at
\* position i, 0 when there is none.  The alternatives are tried in order:
\* ESC [ [0-9;]* [a-zA-Z], then ESC ] [^ESC]* ESC \, then ESC and one
\* character other than [ and ].
ansiReMatch(s, i) ==
    IF s[i] # "ESC" \/ i = Len(s) THEN 0
    ELSE IF s[i + 1] = "["
    THEN LET j == Scan(s, i + 2, Digits \cup {";"}, FALSE)
         IN  IF j <= Len(s) /\ s[j] \in AsciiLetters THEN j - i + 1 ELSE 0
    ELSE IF s[i + 1] = "]"
    THEN LET j == Scan(s, i + 2, {"ESC"}, TRUE)
         IN  IF j < Len(s) /\ s[j + 1] = "\\" THEN j - i + 2 ELSE 0
    ELSE 2

\* ansi.go lines 9-11: ReplaceAllString(s, ""), the matches taken from left
\* to right without overlap
StripANSI(s) ==
    LET F[i \in 1..(Len(s) + 1)] ==
            IF i > Len(s) THEN <<>>
            ELSE LET k == ansiReMatch(s, i)
                 IN  IF k > 0 THEN F[i + k] ELSE <<s[i]>> \o F[i + 1]
    IN  F[1]

\* lines 257-260: "\r\n" becomes "\n", then every other "\r" becomes "\n"
ReplaceCR(s) ==
    LET F[i \in 1..(Len(s) + 1)] ==
            IF i > Len(s) THEN <<>>
            ELSE IF s[i] = "CR" /\ i < Len(s) /\ s[i + 1] = "LF" THEN F[i + 1]
            ELSE IF s[i] = "CR" THEN <<"LF">> \o F[i + 1]
            ELSE <<s[i]>> \o F[i + 1]
    IN  F[1]

\* lines 261-289 on the bytes of a text
cleanLogBytes(s) ==
    LET stripped == StripANSI(ReplaceCR(s))
    IN  [i \in 1..Len(stripped) |-> IF stripped[i] = "BOX" THEN "-" ELSE stripped[i]]

IsRoleHeader(l) == l.k \in {"banner", "banner_ascii"} /\ l.t \in {"ASSISTANT", "USER"}

isPlanningFiller(l) == l.k = "filler"

\* strings.TrimSpace(line) == "": the empty line and a line of white space
IsBlankLine(l) == l = Blank \/ l.k = "space"

\* a compression in which a removed line ends a run of blank lines
compressLogContent_ResetsOnSkip(content) ==
    LET F[i \in 0..Len(content)] ==
            IF i = 0 THEN [out |-> <<>>, prevBlank |-> FALSE]
            ELSE LET p == F[i - 1]
                     line == content[i]
                 IN  IF IsRoleHeader(line) \/ isPlanningFiller(line)
                     THEN [out |-> p.out, prevBlank |-> FALSE]
                     ELSE IF IsBlankLine(line)
                     THEN IF p.prevBlank THEN p
                          ELSE [out |-> Append(p.out, line), prevBlank |-> TRUE]
                     ELSE [out |-> Append(p.out, line), prevBlank |-> FALSE]
    IN  Join(F[Len(content)].out)

compressLogContent(content) ==
    LET F[i \in 0..Len(content)] ==
            IF i = 0 THEN [out |-> <<>>, prevBlank |-> FALSE]
            ELSE LET p == F[i - 1]
                     line == content[i]
                 IN  IF IsRoleHeader(line) \/ isPlanningFiller(line) THEN p
                     ELSE IF IsBlankLine(line)
                     THEN IF p.prevBlank THEN p
                          ELSE [out |-> Append(p.out, line), prevBlank |-> TRUE]
                     ELSE [out |-> Append(p.out, line), prevBlank |-> FALSE]
    IN  Join(F[Len(content)].out)

\* a line holding "USER", "user:" or "[user]"
HasUserMarker(l) == l.k = "marker" \/ (l.k \in {"banner", "banner_ascii"} /\ l.t = "USER")

\* extractQuery: the text of the line after the first marker that has one,
\* else what follows the colon on the marker line; "" when there is none
extractQuery(content) ==
    LET Found(i) ==
            /\ HasUserMarker(content[i])
            /\ \/ (i + 1 <= Len(content) /\ content[i + 1] # Blank)
               \/ content[i].k = "marker"
        hits == {i \in 1..Len(content) : Found(i)}
    IN  IF hits = {} THEN ""
        ELSE LET i == CHOOSE j \in hits : \A h \in hits : j <= h
             IN  IF i + 1 <= Len(content) /\ content[i + 1] # Blank
                 THEN content[i + 1].t
                 ELSE content[i].t

(***************************************************************************)
(* The display buffer (part_002, lines 1027-1085).                         *)
(***************************************************************************)
logViewHeight(mm) == max(1, mm.height - 4)

logWidth(mm) ==
    LET listWidth == Div(mm.width * 2, 5) - 2
        lw == mm.width - listWidth - 6
    IN  IF lw < MinLogWidth THEN MinLogWidth ELSE lw

\* a row the renderer shows: the bytes from (exclusive) to (inclusive) of a
\* raw line
Chunk(from, to) == [from |-> from, to |-> to]

\* lines 1462-1468: the rows of one raw line of n bytes, cut from byte
\* `from` on: line[:width] while more than width bytes are left, then the
\* rest
RECURSIVE WrapLine(_, _, _)
WrapLine(from, n, width) ==
    IF width > 0 /\ n - from > width
    THEN <<Chunk(from, from + width)>> \o WrapLine(from + width, n, width)
    ELSE <<Chunk(from, n)>>

\* lines 1455-1469: the wrapped lines of a content, raw line by raw line
WrapContent(content, width) ==
    [i \in 1..Len(content) |-> WrapLine(0, content[i].n, width)]

\* a counting that takes one more row than the full rows of a line
RowsOf_OneMore(n, width) ==
    IF width > 0 /\ n > width THEN Div(n, width) + 1 ELSE 1

\* the rows one raw line of n bytes takes at a width
RowsOf(n, width) ==
    IF width > 0 /\ n > width THEN Div(n + width - 1, width) ELSE 1

RECURSIVE TotalRows(_, _)
TotalRows(content, width) ==
    IF content = <<>> THEN 0
    ELSE RowsOf(Head(content).n, width) + TotalRows(Tail(content), width)

\* the rows of log text the panel shows
ViewH(mm) ==
    LET viewH == logViewHeight(mm) - 3 - (IF mm.currentQuery # "" THEN 1 ELSE 0)
    IN  IF viewH < 1 THEN 1 ELSE viewH

maxLogScroll(mm, width) ==
    IF mm.logContent = EmptyContent THEN 0
    ELSE max(0, TotalRows(mm.logContent, width) - ViewH(mm))

isAtBottom(mm, width) == mm.logScrollPos >= maxLogScroll(mm, width) - 1

\* clampLogScroll: the scroll position it leaves
clampLogScroll(mm, width) ==
    IF mm.logContent = EmptyContent THEN 0
    ELSE min(mm.logScrollPos, maxLogScroll(mm, width))

\* sha256 of a content, as a value that differs for different contents
Sha256(content) == <<"sha256", content>>

\* filterMessagesBySource keeps every message under either branch
filterMessagesBySource(mm, msgs) ==
    IF mm.sourceFilter = "" THEN msgs ELSE [i \in 1..Len(msgs) |-> msgs[i]]

(***************************************************************************)
(* Keys (part_003) and text inputs.                                        *)
(***************************************************************************)
\* the key bindings
keys ==
    [ Up |-> {"up", "k"},
      Down |-> {"down", "j"},
      PageUp |-> {"pgup", "ctrl+u"},
      PageDown |-> {"pgdown", "ctrl+d"},
      Left |-> {"left", "h"},
      Right |-> {"right", "l"},
      Tab |-> {"tab"},
      Enter |-> {"enter"},
      Kill |-> {"x"},
      Quit |-> {"q", "ctrl+c"},
      Search |-> {"/"},
      Follow |-> {"f"},
      Tab1 |-> {"1"},
      Tab2 |-> {"2"},
      Tab3 |-> {"3"},
      ConfirmY |-> {"y"},
      ConfirmN |-> {"n"},
      Escape |-> {"esc"},
      Message |-> {"m"},
      Verbose |-> {"v"},
      SourceFilter |-> {"c"},
      Spawn |-> {"s"} ]

\* keys that carry one printable character
Runes == {"x", "q", "/", "f", "1", "2", "3", "y", "n", "m", "v", "c", "s",
          "k", "j", "h", "l", "a"}

\* the keys the environment presses
Keys ==
    Runes \cup {"up", "down", "pgup", "pgdown", "left", "right", "tab", "enter",
                "esc", "backspace", "ctrl+c"}

\* a text input: its value, whether it has focus, and its cursor position
TextInput == [v |-> <<>>, f |-> FALSE, p |-> 0]

\* textinput.SetValue: the value is replaced and the cursor is at its end
SetValue(ti, s) == [ti EXCEPT !.v = s, !.p = Len(s)]

\* textinput.Update on a key: a focused input inserts a character at the
\* cursor while below its limit, drops the one before the cursor on
\* backspace and moves the cursor on left and right
TextUpdate(ti, k, charLimit) ==
    IF ~ti.f THEN ti
    ELSE IF k \in Runes
    THEN IF Len(ti.v) < charLimit
         THEN [ti EXCEPT !.v = SubSeq(@, 1, ti.p) \o <<k>> \o SubSeq(@, ti.p + 1, Len(@)),
                         !.p = @ + 1]
         ELSE ti
    ELSE IF k = "backspace"
    THEN IF ti.p > 0
         THEN [ti EXCEPT !.v = SubSeq(@, 1, ti.p - 1) \o SubSeq(@, ti.p + 1, Len(@)),
                         !.p = @ - 1]
         ELSE ti
    ELSE IF k = "left" THEN [ti EXCEPT !.p = max(0, @ - 1)]
    ELSE IF k = "right" THEN [ti EXCEPT !.p = min(Len(ti.v), @ + 1)]
    ELSE ti

searchCharLimit == 64

msgCharLimit == 1024

promptCharLimit == 2048

labelCharLimit == 128

(***************************************************************************)
(* Commands: what a handler hands back to the runtime.                     *)
(***************************************************************************)
Cmd(c, p) == [c |-> c, p |-> p]

BlinkCmd == Cmd("blink", <<>>)

(***************************************************************************)
(* The Model and NewModel (part_002, lines 53-160).                        *)
(***************************************************************************)
NoHash == <<>>

NewModel ==
    [width |-> 0, height |-> 0,
     activeTab |-> tabSessions, activePanel |-> panelList,
     sessions |-> <<>>, processes |-> <<>>, archived |-> <<>>, health |-> "nil",
     sessionCursor |-> 0, processCursor |-> 0, historyCursor |-> 0,
     logContent |-> EmptyContent, logFollow |-> TRUE, logScrollPos |-> 0,
     selectedLogID |-> <<>>, selectedLogTab |-> tabSessions,
     currentQuery |-> "",
     searching |-> FALSE, searchInput |-> TextInput, filter |-> <<>>,
     confirming |-> FALSE, confirmTarget |-> <<>>,
     messaging |-> FALSE, msgInput |-> TextInput, msgTarget |-> <<>>,
     msgTargetName |-> <<>>, sending |-> FALSE,
     lastError |-> "",
     spawning |-> FALSE, spawnField |-> spawnFieldPrompt, spawnPrompt |-> TextInput,
     spawnModelCursor |-> 0, spawnModelOptions |-> <<sDefault>>,
     spawnLabel |-> TextInput, spawnSpinning |-> FALSE,
     verboseLevel |-> VerboseSummary,
     cachedMessages |-> <<>>, cachedLogTab |-> tabSessions,
     sourceFilter |-> "",
     lastLogContent |-> EmptyContent, lastLogWidth |-> 0, wrappedLines |-> <<>>,
     logContentHash |-> NoHash]

(***************************************************************************)
(* List helpers (part_002, lines 908-1025, 1183-1205).                     *)
(***************************************************************************)
\* a filter that does not look at the channel
filteredSessions_NoChannel(mm) ==
    IF mm.filter = <<>> THEN mm.sessions
    ELSE LET f == ToLower(mm.filter)
             Match(s) == \/ Contains(ToLower(s.Key), f)
                         \/ Contains(ToLower(s.Model), f)
                         \/ Contains(ToLower(s.Kind), f)
                         \/ Contains(ToLower(s.DisplayName), f)
                         \/ Contains(ToLower(s.Label), f)
         IN  SelectIdx(mm.sessions, Match)

filteredSessions(mm) ==
    IF mm.filter = <<>> THEN mm.sessions
    ELSE LET f == ToLower(mm.filter)
             Match(s) == \/ Contains(ToLower(s.Key), f)
                         \/ Contains(ToLower(s.Model), f)
                         \/ Contains(ToLower(s.Kind), f)
                         \/ Contains(ToLower(s.DisplayName), f)
                         \/ Contains(ToLower(s.Label), f)
                         \/ Contains(ToLower(s.Channel), f)
         IN  SelectIdx(mm.sessions, Match)

filteredProcesses(mm) ==
    IF mm.filter = <<>> THEN mm.processes
    ELSE LET f == ToLower(mm.filter)
             Match(p) == \/ Contains(ToLower(p.SessionName), f)
                         \/ Contains(ToLower(p.Command), f)
         IN  SelectIdx(mm.processes, Match)

filteredArchived(mm) ==
    IF mm.filter = <<>> THEN mm.archived
    ELSE LET f == ToLower(mm.filter)
             Match(a) == \/ Contains(ToLower(a.Label), f)
                         \/ Contains(ToLower(a.SessionID), f)
         IN  SelectIdx(mm.archived, Match)

filteredListLen(mm) ==
    CASE mm.activeTab = tabSessions -> Len(filteredSessions(mm))
      [] mm.activeTab = tabHistory -> Len(filteredArchived(mm))
      [] OTHER -> Len(filteredProcesses(mm))

currentCursor(mm) ==
    CASE mm.activeTab = tabSessions -> mm.sessionCursor
      [] mm.activeTab = tabHistory -> mm.historyCursor
      [] OTHER -> mm.processCursor

setCursor(mm, v) ==
    CASE mm.activeTab = tabSessions -> [mm EXCEPT !.sessionCursor = v]
      [] mm.activeTab = tabHistory -> [mm EXCEPT !.historyCursor = v]
      [] OTHER -> [mm EXCEPT !.processCursor = v]

\* a cursor movement that does not stop at the end of the list
moveCursor_PastEnd(mm, delta) ==
    LET listLen == filteredListLen(mm)
        c1 == currentCursor(mm) + delta
        c2 == IF c1 < 0 THEN 0 ELSE c1
        c3 == IF c2 > listLen THEN listLen ELSE c2
    IN  IF listLen = 0 THEN mm ELSE setCursor(mm, c3)

moveCursor(mm, delta) ==
    LET listLen == filteredListLen(mm)
        c1 == currentCursor(mm) + delta
        c2 == IF c1 < 0 THEN 0 ELSE c1
        c3 == IF c2 >= listLen THEN listLen - 1 ELSE c2
    IN  IF listLen = 0 THEN mm ELSE setCursor(mm, c3)

\* the id of the item under the active tab's cursor, "" when there is none
selectedItemID(mm) ==
    CASE mm.activeTab = tabSessions ->
            IF mm.sessionCursor < Len(filteredSessions(mm))
            THEN filteredSessions(mm)[mm.sessionCursor + 1].Key ELSE <<>>
      [] mm.activeTab = tabHistory ->
            IF mm.historyCursor < Len(filteredArchived(mm))
            THEN filteredArchived(mm)[mm.historyCursor + 1].Path ELSE <<>>
      [] OTHER ->
            IF mm.processCursor < Len(filteredProcesses(mm))
            THEN filteredProcesses(mm)[mm.processCursor + 1].SessionName ELSE <<>>

sessionDisplayName(s) ==
    IF s.Label # <<>> THEN s.Label
    ELSE IF s.DisplayName # <<>> THEN s.DisplayName
    ELSE IF s.Kind # <<>> /\ s.Channel # <<>>
    THEN LET hash == IF Len(s.SessionID) > 4
                     THEN SubSeq(s.SessionID, Len(s.SessionID) - 3, Len(s.SessionID))
                     ELSE s.SessionID
         IN  s.Kind \o <<"#">> \o hash
    ELSE IF Len(s.Key) > 20 THEN SubSeq(s.Key, 1, 20) ELSE s.Key

\* fetchLogs(id): the command, with the tab, the verbosity and the session
\* id of the first session whose key is id, as they are when it is issued
fetchLogs(mm, id) ==
    LET hits == {i \in 1..Len(mm.sessions) : mm.sessions[i].Key = id}
        sessionID == IF hits = {} THEN <<>>
                     ELSE mm.sessions[CHOOSE i \in hits : \A j \in hits : i <= j].SessionID
    IN  Cmd("fetchLogs", <<id, mm.selectedLogTab, mm.verboseLevel, sessionID>>)

killProcess(target) == Cmd("kill", <<target>>)

(***************************************************************************)
(* Rendering.  Of View two things are modelled: whether it panics (the one *)
(* slice of the render path whose bound is not tested is the twelve-byte   *)
(* prefix of a session id in the history list), and what the log panel     *)
(* does with its cache of wrapped lines.                                   *)
(***************************************************************************)
\* lines 1380-1423: the list shows the first maxItems-1 runs, and a run
\* without a label by SessionID[:12], which panics on a shorter id
renderHistoryListPanics(mm, maxItems) ==
    LET runs == filteredArchived(mm)
    IN  \E i \in 1..Len(runs) :
            /\ i - 1 < maxItems - 1
            /\ runs[i].Label = <<>>
            /\ Len(runs[i].SessionID) < 12

\* lines 1103-1119, 1171-1178: nothing is rendered before the first window
\* size; the history list is rendered when its tab is active
ViewPanics(mm) ==
    /\ mm.width # 0
    /\ mm.height # 0
    /\ mm.activeTab = tabHistory
    /\ renderHistoryListPanics(mm, max(5, mm.height - 4) - 3)

\* lines 1425-1473: the log panel of a frame.  Without content it shows a
\* hint and returns; otherwise it wraps the content again when the content
\* or the width is not the one its Model remembers, and remembers both.  m is
\* the receiver after the call, rewrapped whether the wrap loop has run.
renderLogPanel(mm, width, height) ==
    IF mm.logContent = EmptyContent
    THEN [m |-> mm, shown |-> FALSE, rewrapped |-> FALSE]
    ELSE IF mm.logContent # mm.lastLogContent \/ width # mm.lastLogWidth
    THEN [m |-> [mm EXCEPT !.wrappedLines = WrapContent(mm.logContent, width),
                           !.lastLogContent = mm.logContent,
                           !.lastLogWidth = width],
          shown |-> TRUE, rewrapped |-> TRUE]
    ELSE [m |-> mm, shown |-> TRUE, rewrapped |-> FALSE]

\* lines 1103-1143: a frame.  Nothing is rendered before the first window
\* size; the list panel is rendered before the log panel.  View and
\* renderLogPanel have value receivers: the Model they assign to (m here) is
\* their own copy, and the runtime keeps the Model that Update returned.
View(mm) ==
    IF mm.width = 0 \/ mm.height = 0 \/ ViewPanics(mm)
    THEN [m |-> mm, shown |-> FALSE, rewrapped |-> FALSE]
    ELSE renderLogPanel(mm, logWidth(mm), max(5, mm.height - 4))

(***************************************************************************)
(* handleKey (part_002, lines 557-899): the Model it returns, the commands *)
(* it returns and whether it asks the runtime to quit.                     *)
(***************************************************************************)
Ret(mm, cs) == [m |-> mm, cmds |-> cs, quit |-> FALSE]

\* lines 559-576
\* a search whose Escape clears the filter and leaves the field's text
handleKeySearching_EscapeKeepsText(mm, k) ==
    IF k \in keys.Escape
    THEN Ret([mm EXCEPT !.searching = FALSE, !.filter = <<>>], <<>>)
    ELSE IF k \in keys.Enter
    THEN Ret([mm EXCEPT !.searching = FALSE, !.filter = mm.searchInput.v], <<>>)
    ELSE LET ti == TextUpdate(mm.searchInput, k, searchCharLimit)
         IN  Ret([mm EXCEPT !.searchInput = ti, !.filter = ti.v], <<>>)

handleKeySearching(mm, k) ==
    IF k \in keys.Escape
    THEN Ret([mm EXCEPT !.searching = FALSE, !.filter = <<>>, !.searchInput = SetValue(@, <<>>)], <<>>)
    ELSE IF k \in keys.Enter
    THEN Ret([mm EXCEPT !.searching = FALSE, !.filter = mm.searchInput.v], <<>>)
    ELSE LET ti == TextUpdate(mm.searchInput, k, searchCharLimit)
         IN  Ret([mm EXCEPT !.searchInput = ti, !.filter = ti.v], <<>>)

\* a message input that sends to the session now under the cursor
handleKeyMessaging_ToSelection(mm, k) ==
    IF k \in keys.Escape
    THEN Ret([mm EXCEPT !.messaging = FALSE, !.msgInput = SetValue(@, <<>>)], <<>>)
    ELSE IF k \in keys.Enter
    THEN LET text == mm.msgInput.v
             ss == filteredSessions(mm)
             target == IF mm.sessionCursor < Len(ss)
                       THEN ss[mm.sessionCursor + 1].SessionID ELSE mm.msgTarget
         IN  IF text = <<>>
             THEN Ret([mm EXCEPT !.messaging = FALSE], <<>>)
             ELSE Ret([mm EXCEPT !.messaging = FALSE, !.sending = TRUE,
                                 !.msgInput = SetValue(@, <<>>)],
                      <<Cmd("send", <<target, text>>)>>)
    ELSE Ret([mm EXCEPT !.msgInput = TextUpdate(mm.msgInput, k, msgCharLimit)], <<>>)

\* lines 579-607
handleKeyMessaging(mm, k) ==
    IF k \in keys.Escape
    THEN Ret([mm EXCEPT !.messaging = FALSE, !.msgInput = SetValue(@, <<>>)], <<>>)
    ELSE IF k \in keys.Enter
    THEN LET text == mm.msgInput.v
         IN  IF text = <<>>
             THEN Ret([mm EXCEPT !.messaging = FALSE], <<>>)
             ELSE Ret([mm EXCEPT !.messaging = FALSE, !.sending = TRUE,
                                 !.msgInput = SetValue(@, <<>>)],
                      <<Cmd("send", <<mm.msgTarget, text>>)>>)
    ELSE Ret([mm EXCEPT !.msgInput = TextUpdate(mm.msgInput, k, msgCharLimit)], <<>>)

\* lines 648-657: the model id of the selected option, "" for the default
SpawnModelID(mm) ==
    LET selected == mm.spawnModelOptions[mm.spawnModelCursor + 1]
        idx == Index(selected, <<" ", " ", "(">>)
    IN  IF selected = sDefault THEN <<>>
        ELSE IF idx > 0 THEN SubSeq(selected, 1, idx) ELSE selected

\* lines 660-667: the session id of the first main session, "" when none
MainSessionID(mm) ==
    LET hits == {i \in 1..Len(mm.sessions) :
                    \/ mm.sessions[i].Kind = sMain
                    \/ HasSuffix(mm.sessions[i].Key, sColonMain)}
    IN  IF hits = {} THEN <<>>
        ELSE mm.sessions[CHOOSE i \in hits : \A j \in hits : i <= j].SessionID

\* a spawn that leaves the label out of the request
SpawnEnter_DropsLabel(mm) ==
    LET prompt == mm.spawnPrompt.v
        model == SpawnModelID(mm)
        mainSessionID == MainSessionID(mm)
    IN  IF prompt = <<>>
        THEN Ret([mm EXCEPT !.lastError = "prompt is required"], <<>>)
        ELSE IF mainSessionID = <<>>
        THEN Ret([mm EXCEPT !.lastError = "no main session found"], <<>>)
        ELSE Ret([mm EXCEPT !.spawnSpinning = TRUE, !.lastError = ""],
                 <<Cmd("spawn", <<mainSessionID, prompt, model, <<>> >>)>>)

\* a validation that also stops the spinner when it rejects the form
SpawnEnter_StopsSpinner(mm) ==
    LET prompt == mm.spawnPrompt.v
        model == SpawnModelID(mm)
        label == mm.spawnLabel.v
        mainSessionID == MainSessionID(mm)
    IN  IF prompt = <<>>
        THEN Ret([mm EXCEPT !.lastError = "prompt is required",
                            !.spawnSpinning = FALSE], <<>>)
        ELSE IF mainSessionID = <<>>
        THEN Ret([mm EXCEPT !.lastError = "no main session found",
                            !.spawnSpinning = FALSE], <<>>)
        ELSE Ret([mm EXCEPT !.spawnSpinning = TRUE, !.lastError = ""],
                 <<Cmd("spawn", <<mainSessionID, prompt, model, label>>)>>)

\* lines 642-682
SpawnEnter(mm) ==
    LET prompt == mm.spawnPrompt.v
        model == SpawnModelID(mm)
        label == mm.spawnLabel.v
        mainSessionID == MainSessionID(mm)
    IN  IF prompt = <<>>
        THEN Ret([mm EXCEPT !.lastError = "prompt is required"], <<>>)
        ELSE IF mainSessionID = <<>>
        THEN Ret([mm EXCEPT !.lastError = "no main session found"], <<>>)
        ELSE Ret([mm EXCEPT !.spawnSpinning = TRUE, !.lastError = ""],
                 <<Cmd("spawn", <<mainSessionID, prompt, model, label>>)>>)

\* a spawn form that Escape empties but does not close while its spawn is
\* in flight
handleKeySpawning_HoldsWhileSpinning(mm, k) ==
    IF k \in keys.Escape /\ mm.spawnSpinning
    THEN Ret([mm EXCEPT !.spawnPrompt = SetValue(@, <<>>),
                        !.spawnLabel = SetValue(@, <<>>), !.spawnModelCursor = 0], <<>>)
    ELSE IF k \in keys.Escape
    THEN Ret([mm EXCEPT !.spawning = FALSE, !.spawnPrompt = SetValue(@, <<>>),
                        !.spawnLabel = SetValue(@, <<>>), !.spawnModelCursor = 0], <<>>)
    ELSE IF k \in keys.Tab
    THEN LET field == (mm.spawnField + 1) % spawnFieldCount
         IN  Ret([mm EXCEPT !.spawnField = field,
                            !.spawnPrompt.f = (field = spawnFieldPrompt),
                            !.spawnLabel.f = (field = spawnFieldLabel)],
                 <<BlinkCmd>>)
    ELSE IF mm.spawnField = spawnFieldModel /\ k \in (keys.Up \cup keys.Down)
    THEN LET delta == IF k \in keys.Up THEN -1 ELSE 1
             c1 == mm.spawnModelCursor + delta
             c2 == IF c1 < 0 THEN Len(mm.spawnModelOptions) - 1 ELSE c1
             c3 == IF c2 >= Len(mm.spawnModelOptions) THEN 0 ELSE c2
         IN  Ret([mm EXCEPT !.spawnModelCursor = c3], <<>>)
    ELSE IF k \in keys.Enter
    THEN SpawnEnter(mm)
    ELSE CASE mm.spawnField = spawnFieldPrompt ->
                 Ret([mm EXCEPT !.spawnPrompt =
                                   TextUpdate(mm.spawnPrompt, k, promptCharLimit)], <<>>)
           [] mm.spawnField = spawnFieldLabel ->
                 Ret([mm EXCEPT !.spawnLabel =
                                   TextUpdate(mm.spawnLabel, k, labelCharLimit)], <<>>)
           [] OTHER -> Ret(mm, <<>>)

\* lines 610-693
handleKeySpawning(mm, k) ==
    IF k \in keys.Escape
    THEN Ret([mm EXCEPT !.spawning = FALSE, !.spawnPrompt = SetValue(@, <<>>),
                        !.spawnLabel = SetValue(@, <<>>), !.spawnModelCursor = 0], <<>>)
    ELSE IF k \in keys.Tab
    THEN LET field == (mm.spawnField + 1) % spawnFieldCount
         IN  Ret([mm EXCEPT !.spawnField = field,
                            !.spawnPrompt.f = (field = spawnFieldPrompt),
                            !.spawnLabel.f = (field = spawnFieldLabel)],
                 <<BlinkCmd>>)
    ELSE IF mm.spawnField = spawnFieldModel /\ k \in (keys.Up \cup keys.Down)
    THEN LET delta == IF k \in keys.Up THEN -1 ELSE 1
             c1 == mm.spawnModelCursor + delta
             c2 == IF c1 < 0 THEN Len(mm.spawnModelOptions) - 1 ELSE c1
             c3 == IF c2 >= Len(mm.spawnModelOptions) THEN 0 ELSE c2
         IN  Ret([mm EXCEPT !.spawnModelCursor = c3], <<>>)
    ELSE IF k \in keys.Enter
    THEN SpawnEnter(mm)
    ELSE CASE mm.spawnField = spawnFieldPrompt ->
                 Ret([mm EXCEPT !.spawnPrompt =
                                   TextUpdate(mm.spawnPrompt, k, promptCharLimit)], <<>>)
           [] mm.spawnField = spawnFieldLabel ->
                 Ret([mm EXCEPT !.spawnLabel =
                                   TextUpdate(mm.spawnLabel, k, labelCharLimit)], <<>>)
           [] OTHER -> Ret(mm, <<>>)

\* a confirmation that takes Enter for 'y'
handleKeyConfirming_EnterKills(mm, k) ==
    IF k \in (keys.ConfirmY \cup keys.Enter)
    THEN Ret([mm EXCEPT !.confirming = FALSE, !.confirmTarget = <<>>],
             <<killProcess(mm.confirmTarget)>>)
    ELSE IF k \in (keys.ConfirmN \cup keys.Escape)
    THEN Ret([mm EXCEPT !.confirming = FALSE, !.confirmTarget = <<>>], <<>>)
    ELSE Ret(mm, <<>>)

\* lines 696-709
handleKeyConfirming(mm, k) ==
    IF k \in keys.ConfirmY
    THEN Ret([mm EXCEPT !.confirming = FALSE, !.confirmTarget = <<>>],
             <<killProcess(mm.confirmTarget)>>)
    ELSE IF k \in (keys.ConfirmN \cup keys.Escape)
    THEN Ret([mm EXCEPT !.confirming = FALSE, !.confirmTarget = <<>>], <<>>)
    ELSE Ret(mm, <<>>)

\* lines 738-763: the page size of a page-up or page-down
PageSize(mm) == IF logViewHeight(mm) - 3 < 1 THEN 10 ELSE logViewHeight(mm) - 3

\* a scroll down that does not clamp the position
ScrollDown_Unclamped(mm, delta) ==
    LET m1 == [mm EXCEPT !.logScrollPos = @ + delta]
    IN  IF isAtBottom(m1, logWidth(m1)) THEN [m1 EXCEPT !.logFollow = TRUE] ELSE m1

\* a scroll up that leaves follow as it is
ScrollUp_KeepsFollow(mm, delta) ==
    LET m1 == [mm EXCEPT !.logScrollPos = max(0, @ - delta)]
    IN  [m1 EXCEPT !.logScrollPos = clampLogScroll(m1, logWidth(m1))]

\* lines 725-736, 750-763: scroll down by delta, clamp, follow at the bottom
ScrollDown(mm, delta) ==
    LET m1 == [mm EXCEPT !.logScrollPos = @ + delta]
        m2 == [m1 EXCEPT !.logScrollPos = clampLogScroll(m1, logWidth(m1))]
    IN  IF isAtBottom(m2, logWidth(m2)) THEN [m2 EXCEPT !.logFollow = TRUE] ELSE m2

\* lines 715-723, 738-748: scroll up by delta, clamp, stop following
ScrollUp(mm, delta) ==
    LET m1 == [mm EXCEPT !.logScrollPos = max(0, @ - delta)]
    IN  [m1 EXCEPT !.logScrollPos = clampLogScroll(m1, logWidth(m1)),
                   !.logFollow = FALSE]

\* lines 843-852, 857-866: format the cached messages again
ReRender(mm) ==
    IF Len(mm.cachedMessages) > 0 /\ mm.selectedLogTab # tabProcesses
    THEN LET filtered == filterMessagesBySource(mm, mm.cachedMessages)
             m1 == [mm EXCEPT !.logContent =
                        compressLogContent(FormatHistory(filtered, mm.verboseLevel))]
         IN  IF m1.logFollow
             THEN [m1 EXCEPT !.logScrollPos = maxLogScroll(m1, logWidth(m1))]
             ELSE [m1 EXCEPT !.logScrollPos = clampLogScroll(m1, logWidth(m1))]
    ELSE mm

NextSourceFilter(f) ==
    CASE f = "" -> "signal"
      [] f = "signal" -> "matrix"
      [] f = "matrix" -> ""
      [] OTHER -> f

\* lines 796-811
SelectEnter(mm) ==
    LET id == selectedItemID(mm)
        m1 == [mm EXCEPT !.selectedLogID = id, !.selectedLogTab = mm.activeTab,
                         !.activePanel = panelLogs, !.logContent = EmptyContent,
                         !.logScrollPos = 0, !.logFollow = TRUE,
                         !.lastLogContent = EmptyContent, !.lastLogWidth = 0,
                         !.wrappedLines = <<>>]
    IN  IF id # <<>> THEN Ret(m1, <<fetchLogs(m1, id), Cmd("tickLogs", <<>>)>>)
        ELSE Ret(mm, <<>>)

\* a message key that does not look at the active tab
MessageKey_AnyTab(mm) ==
    IF mm.sessionCursor < Len(filteredSessions(mm))
    THEN LET s == filteredSessions(mm)[mm.sessionCursor + 1]
         IN  Ret([mm EXCEPT !.msgTarget = s.SessionID,
                            !.msgTargetName = sessionDisplayName(s),
                            !.messaging = TRUE, !.msgInput.f = TRUE],
                 <<BlinkCmd>>)
    ELSE Ret(mm, <<>>)

\* lines 869-881
MessageKey(mm) ==
    IF mm.activeTab = tabSessions /\ mm.sessionCursor < Len(filteredSessions(mm))
    THEN LET s == filteredSessions(mm)[mm.sessionCursor + 1]
         IN  Ret([mm EXCEPT !.msgTarget = s.SessionID,
                            !.msgTargetName = sessionDisplayName(s),
                            !.messaging = TRUE, !.msgInput.f = TRUE],
                 <<BlinkCmd>>)
    ELSE Ret(mm, <<>>)

\* lines 883-895
SpawnKey(mm) ==
    Ret([mm EXCEPT !.spawning = TRUE, !.spawnField = spawnFieldPrompt,
                   !.spawnPrompt = [SetValue(@, <<>>) EXCEPT !.f = TRUE],
                   !.spawnModelCursor = 0,
                   !.spawnLabel = [SetValue(@, <<>>) EXCEPT !.f = FALSE]],
        <<BlinkCmd, Cmd("fetchModels", <<>>)>>)

\* lines 711-898
handleKeyNormal(mm, k) ==
    CASE k \in keys.Quit -> [m |-> mm, cmds |-> <<>>, quit |-> TRUE]
      [] k \in keys.Up ->
            Ret(IF mm.activePanel = panelList THEN moveCursor(mm, -1)
                ELSE ScrollUp(mm, 1), <<>>)
      [] k \in keys.Down ->
            Ret(IF mm.activePanel = panelList THEN moveCursor(mm, 1)
                ELSE ScrollDown(mm, 1), <<>>)
      [] k \in keys.PageUp ->
            Ret(IF mm.activePanel = panelLogs THEN ScrollUp(mm, PageSize(mm)) ELSE mm, <<>>)
      [] k \in keys.PageDown ->
            Ret(IF mm.activePanel = panelLogs THEN ScrollDown(mm, PageSize(mm)) ELSE mm, <<>>)
      [] k \in keys.Tab -> Ret([mm EXCEPT !.activePanel = (@ + 1) % 2], <<>>)
      [] k \in keys.Left -> Ret([mm EXCEPT !.activePanel = panelList], <<>>)
      [] k \in keys.Right -> Ret([mm EXCEPT !.activePanel = panelLogs], <<>>)
      [] k \in keys.Escape ->
            Ret(IF mm.activePanel = panelLogs
                THEN [mm EXCEPT !.activePanel = panelList] ELSE mm, <<>>)
      [] k \in keys.Tab1 -> Ret([mm EXCEPT !.activeTab = tabSessions], <<>>)
      [] k \in keys.Tab2 -> Ret([mm EXCEPT !.activeTab = tabProcesses], <<>>)
      [] k \in keys.Tab3 -> Ret([mm EXCEPT !.activeTab = tabHistory], <<>>)
      [] k \in keys.Enter -> SelectEnter(mm)
      [] k \in keys.Kill ->
            Ret(IF selectedItemID(mm) # <<>> /\ mm.activeTab = tabProcesses
                THEN [mm EXCEPT !.confirming = TRUE,
                                !.confirmTarget = selectedItemID(mm)]
                ELSE mm, <<>>)
      [] k \in keys.Search ->
            Ret([mm EXCEPT !.searching = TRUE, !.searchInput.f = TRUE], <<BlinkCmd>>)
      [] k \in keys.Follow ->
            LET m1 == [mm EXCEPT !.logFollow = ~@]
            IN  Ret(IF m1.logFollow
                    THEN [m1 EXCEPT !.logScrollPos = maxLogScroll(m1, logWidth(m1))]
                    ELSE m1, <<>>)
      [] k \in keys.SourceFilter ->
            Ret(ReRender([mm EXCEPT !.sourceFilter = NextSourceFilter(@)]), <<>>)
      [] k \in keys.Verbose ->
            Ret(ReRender([mm EXCEPT !.verboseLevel = (@ + 1) % 3]), <<>>)
      [] k \in keys.Message -> MessageKey(mm)
      [] k \in keys.Spawn -> SpawnKey(mm)
      [] OTHER -> Ret(mm, <<>>)

\* a dispatcher that tests the quit binding before the modes
handleKey_QuitFirst(mm, k) ==
    IF k \in keys.Quit THEN handleKeyNormal(mm, k)
    ELSE IF mm.searching THEN handleKeySearching(mm, k)
    ELSE IF mm.messaging THEN handleKeyMessaging(mm, k)
    ELSE IF mm.spawning THEN handleKeySpawning(mm, k)
    ELSE IF mm.confirming THEN handleKeyConfirming(mm, k)
    ELSE handleKeyNormal(mm, k)

\* lines 557-899: the modes are tested in this order, Normal last
handleKey(mm, k) ==
    IF mm.searching THEN handleKeySearching(mm, k)
    ELSE IF mm.messaging THEN handleKeyMessaging(mm, k)
    ELSE IF mm.spawning THEN handleKeySpawning(mm, k)
    ELSE IF mm.confirming THEN handleKeyConfirming(mm, k)
    ELSE handleKeyNormal(mm, k)

(***************************************************************************)
(* Update on the asynchronous messages (part_002, lines 408-555).          *)
(***************************************************************************)
\* lines 410-413
UpdateWindowSize(mm, w, h) == Ret([mm EXCEPT !.width = w, !.height = h], <<>>)

\* lines 418-421
UpdateSessions(mm, ss) ==
    Ret([mm EXCEPT !.sessions = ss, !.lastError = ""], <<Cmd("fetchArchived", <<ss>>)>>)

\* lines 423-425
UpdateArchived(mm, runs) == Ret([mm EXCEPT !.archived = runs], <<>>)

\* lines 427-430
UpdateProcesses(mm, ps) == Ret([mm EXCEPT !.processes = ps, !.lastError = ""], <<>>)

LogsMsg(content, query, messages, logTab) ==
    [content |-> content, query |-> query, messages |-> messages, logTab |-> logTab]

\* lines 437-445: the content a logsMsg is taken to carry
NewContent(mm, msg) ==
    LET filtered == filterMessagesBySource(mm, msg.messages)
    IN  IF mm.selectedLogTab # tabProcesses /\ Len(filtered) # Len(msg.messages)
        THEN compressLogContent(FormatHistory(filtered, mm.verboseLevel))
        ELSE msg.content

\* line 468: contentGrew compares the byte lengths
ContentGrew(newContent, oldContent) == ByteLen(newContent) > ByteLen(oldContent)

\* lines 466-471: the scroll position after a changed content while following
FollowScroll(m2, oldContent) ==
    LET wasEmpty == ByteLen(oldContent) = 0
    IN  IF ContentGrew(m2.logContent, oldContent) \/ wasEmpty
        THEN maxLogScroll(m2, logWidth(m2))
        ELSE m2.logScrollPos

\* line 476: oldMax is read from the Model, whose content is the new one
OldMaxScroll(m2, oldContent, w) == maxLogScroll(m2, w)

\* lines 472-483: the scroll position after a changed content otherwise
AnchorScroll(m2, oldContent) ==
    LET w == logWidth(m2)
        oldMax == OldMaxScroll(m2, oldContent, w)
        distFromBottom == oldMax - m2.logScrollPos
        newMax == maxLogScroll(m2, w)
    IN  max(0, newMax - distFromBottom)

\* a change detection that takes every update as changed
SameHash_Never(mm, newContent) == FALSE

\* lines 449-453: whether the update is taken as unchanged
SameHash(mm, newContent) == Sha256(newContent) = mm.logContentHash

\* lines 432-484
UpdateLogs(mm, msg) ==
    LET m1 == [mm EXCEPT !.cachedMessages = msg.messages, !.cachedLogTab = msg.logTab]
        newContent == NewContent(m1, msg)
        oldContent == m1.logContent
        m2 == [m1 EXCEPT !.logContent = newContent,
                         !.logContentHash = Sha256(newContent),
                         !.currentQuery = msg.query,
                         !.lastLogContent = EmptyContent, !.lastLogWidth = 0,
                         !.wrappedLines = <<>>]
    IN  IF SameHash(m1, newContent)
        THEN Ret([m1 EXCEPT !.currentQuery = msg.query], <<>>)
        ELSE IF m2.logFollow
        THEN Ret([m2 EXCEPT !.logScrollPos = FollowScroll(m2, oldContent)], <<>>)
        ELSE Ret([m2 EXCEPT !.logScrollPos = AnchorScroll(m2, oldContent)], <<>>)

\* lines 486-489
UpdateHealth(mm, h) == Ret([mm EXCEPT !.health = h, !.lastError = ""], <<>>)

\* "--- SENT ---" drawn with box characters
SentLine == Line("banner", "SENT", "", 24)

\* lines 491-503
UpdateAgentReply(mm, replyText) ==
    LET reply == cleanLogContent(replyText)
        m1 == [mm EXCEPT !.sending = FALSE,
                         !.logContent = @ \o <<SentLine>> \o reply \o <<Blank>>]
        m2 == IF m1.logFollow
              THEN [m1 EXCEPT !.logScrollPos = maxLogScroll(m1, logWidth(m1))]
              ELSE m1
    IN  IF m2.selectedLogID # <<>>
        THEN Ret(m2, <<fetchLogs(m2, m2.selectedLogID)>>)
        ELSE Ret(m2, <<>>)

\* a modelListMsg handler that replaces the options and keeps the index
UpdateModelList_KeepsCursor(mm, models) ==
    LET Display(mo) == IF mo.Alias # <<>>
                       THEN mo.ID \o <<" ", " ", "(">> \o mo.Alias \o <<")">>
                       ELSE mo.ID
    IN  Ret([mm EXCEPT !.spawnModelOptions =
                          <<sDefault>> \o [i \in 1..Len(models) |-> Display(models[i])]],
            <<>>)

\* lines 505-516
UpdateModelList(mm, models) ==
    LET Display(mo) == IF mo.Alias # <<>>
                       THEN mo.ID \o <<" ", " ", "(">> \o mo.Alias \o <<")">>
                       ELSE mo.ID
    IN  Ret([mm EXCEPT !.spawnModelOptions =
                          <<sDefault>> \o [i \in 1..Len(models) |-> Display(models[i])],
                       !.spawnModelCursor = 0], <<>>)

\* a spawnSuccessMsg handler that shows the form again instead of closing it
UpdateSpawnSuccess_Reopens(mm, result) ==
    Ret([mm EXCEPT !.spawnSpinning = FALSE, !.spawning = TRUE,
                   !.lastError = IF result # "" THEN "spawned " \o result ELSE ""],
        <<Cmd("fetchSessions", <<>>)>>)

\* lines 518-526; result is "" for a nil result or one without a session id
UpdateSpawnSuccess(mm, result) ==
    Ret([mm EXCEPT !.spawnSpinning = FALSE, !.spawning = FALSE,
                   !.lastError = IF result # "" THEN "spawned " \o result ELSE ""],
        <<Cmd("fetchSessions", <<>>)>>)

\* an error that leaves the spinner running
UpdateErr_KeepsSpinner(mm, text) ==
    Ret([mm EXCEPT !.sending = FALSE, !.lastError = text], <<>>)

\* lines 528-532
UpdateErr(mm, text) ==
    Ret([mm EXCEPT !.sending = FALSE, !.spawnSpinning = FALSE, !.lastError = text], <<>>)

\* lines 534-538, 550-551
UpdateTickSessions(mm) == Ret(mm, <<Cmd("fetchSessions", <<>>), Cmd("tickSessions", <<>>)>>)

UpdateTickProcesses(mm) == Ret(mm, <<Cmd("fetchProcesses", <<>>), Cmd("tickProcesses", <<>>)>>)

UpdateTickHealth(mm) == Ret(mm, <<Cmd("fetchHealth", <<>>), Cmd("tickHealth", <<>>)>>)

\* a log tick that arms no further timer while follow is off
UpdateTickLogs_StopsWhenOff(mm, since) ==
    IF mm.selectedLogID # <<>> /\ mm.logFollow /\ since >= LogThrottle
    THEN Ret(mm, <<fetchLogs(mm, mm.selectedLogID), Cmd("tickLogs", <<>>)>>)
    ELSE IF mm.logFollow THEN Ret(mm, <<Cmd("tickLogs", <<>>)>>)
    ELSE Ret(mm, <<>>)

\* a log tick that fetches whether follow is on or off
UpdateTickLogs_IgnoresFollow(mm, since) ==
    IF mm.selectedLogID # <<>> /\ since >= LogThrottle
    THEN Ret(mm, <<fetchLogs(mm, mm.selectedLogID), Cmd("tickLogs", <<>>)>>)
    ELSE Ret(mm, <<Cmd("tickLogs", <<>>)>>)

\* lines 540-548; since is the time since the last logsMsg, in seconds
UpdateTickLogs(mm, since) ==
    IF mm.selectedLogID # <<>> /\ mm.logFollow /\ since >= LogThrottle
    THEN Ret(mm, <<fetchLogs(mm, mm.selectedLogID), Cmd("tickLogs", <<>>)>>)
    ELSE Ret(mm, <<Cmd("tickLogs", <<>>)>>)

(***************************************************************************)
(* The control loop: one event at a time (part_002 Update; spec section 5).*)
(*                                                                         *)
(* m        the Model                                                      *)
(* inflight the commands a handler returned whose result message has not   *)
(*          arrived yet, as a bag                                          *)
(* sinceLogFetch  seconds since lastLogFetch, counted up to LogThrottle    *)
(* sinceLogIssue  seconds since a log fetch was last issued, counted up to *)
(*          LogThrottle (it starts there: none was issued yet)             *)
(* quit     the runtime was asked to quit                                  *)
(*                                                                         *)
(* The session, process and health polls are armed by Init (lines 162-171) *)
(* and re-armed by every tick, so their ticks, results and errors can      *)
(* arrive between any two events.  A log tick is armed by the first Enter  *)
(* on an item and re-armed by every log tick (lines 540-548, 809), so one  *)
(* is pending exactly when selectedLogID is set.                           *)
(***************************************************************************)
VARIABLES m, inflight, sinceLogFetch, sinceLogIssue, quit

vars == <<m, inflight, sinceLogFetch, sinceLogIssue, quit>>

NoTrack == {}

\* What a specification lets the environment do: track names the kinds of
\* command whose results it delivers (the others are dropped), text is the
\* number of characters it types into the input fields.
Env(track, text) == [track |-> track, text |-> text]

\* the commands of the kinds in track among cs, as a bag
TrackedBag(cs, track) ==
    LET F[i \in 0..Len(cs)] ==
            IF i = 0 THEN EmptyBag
            ELSE IF cs[i].c \in track THEN F[i - 1] (+) SetToBag({cs[i]})
            ELSE F[i - 1]
    IN  F[Len(cs)]

\* the commands Init returns (lines 162-171)
InitCmds ==
    << Cmd("fetchSessions", <<>>), Cmd("fetchProcesses", <<>>),
       Cmd("fetchHealth", <<>>), Cmd("tickSessions", <<>>),
       Cmd("tickProcesses", <<>>), Cmd("tickHealth", <<>>) >>

Init ==
    /\ m = NewModel
    /\ inflight = EmptyBag
    /\ sinceLogFetch = LogThrottle
    /\ sinceLogIssue = LogThrottle
    /\ quit = FALSE

\* The loop runs until the runtime is asked to quit or the View of the Model
\* panics: the runtime renders the Model after every Update, and a panic of
\* View ends the program.
Running == ~quit /\ ~ViewPanics(m)

\* the commands that are tick timers (lines 384-406)
TimerKinds == {"tickSessions", "tickProcesses", "tickLogs", "tickHealth"}

\* the number of commands of bag b whose kind is in kinds
CountOf(b, kinds) ==
    BagCardinality([c \in {x \in BagToSet(b) : x.c \in kinds} |-> CopiesIn(c, b)])

\* the kinds of the commands of bag b that are not timers
IntentKinds(b) == {x.c : x \in BagToSet(b)} \ TimerKinds

\* One pass of the loop: the handler's result r replaces the Model, the
\* command used (if any) is gone and the commands r returns are in flight.
Step(r, used, track) ==
    LET rest == IF used = <<>> THEN inflight ELSE inflight (-) SetToBag({used[1]})
        next == rest (+) TrackedBag(r.cmds, track)
    IN  /\ Running
        /\ CountOf(next, IntentKinds(next)) <= MaxInFlight
        /\ CountOf(next, TimerKinds) <= MaxTimers
        /\ m' = r.m
        /\ quit' = r.quit
        /\ inflight' = next
        /\ sinceLogIssue' = IF \E i \in 1..Len(r.cmds) : r.cmds[i].c = "fetchLogs"
                             THEN 0 ELSE sinceLogIssue

\* the length of the field a printable key would be typed into, -1 if none
TypedFieldLen ==
    IF m.searching THEN Len(m.searchInput.v)
    ELSE IF m.messaging THEN Len(m.msgInput.v)
    ELSE IF m.spawning /\ m.spawnField = spawnFieldPrompt THEN Len(m.spawnPrompt.v)
    ELSE IF m.spawning /\ m.spawnField = spawnFieldLabel THEN Len(m.spawnLabel.v)
    ELSE -1

\* the environment types at most MaxText characters into a field
\* the characters in the four input fields
TotalTyped ==
    Len(m.searchInput.v) + Len(m.msgInput.v) + Len(m.spawnPrompt.v) + Len(m.spawnLabel.v)

\* the environment has at most n characters typed into the fields
CanPress(k, n) == (k \in Runes /\ TypedFieldLen >= 0) => TotalTyped < n

KeyMsg(k, env) ==
    /\ CanPress(k, env.text)
    /\ Step(handleKey(m, k), <<>>, env.track)
    /\ UNCHANGED sinceLogFetch

KeySearching(k, env) == m.searching /\ KeyMsg(k, env)

KeyMessaging(k, env) == ~m.searching /\ m.messaging /\ KeyMsg(k, env)

KeySpawning(k, env) ==
    ~m.searching /\ ~m.messaging /\ m.spawning /\ KeyMsg(k, env)

KeyConfirming(k, env) ==
    ~m.searching /\ ~m.messaging /\ ~m.spawning /\ m.confirming /\ KeyMsg(k, env)

KeyNormal(k, env) ==
    ~m.searching /\ ~m.messaging /\ ~m.spawning /\ ~m.confirming /\ KeyMsg(k, env)

WindowSizeMsg(w, h) ==
    /\ Step(UpdateWindowSize(m, w, h), <<>>, NoTrack)
    /\ UNCHANGED sinceLogFetch

SessionsMsg(ss) ==
    /\ Step(UpdateSessions(m, ss), <<>>, NoTrack)
    /\ UNCHANGED sinceLogFetch

ArchivedMsg(runs) ==
    /\ Step(UpdateArchived(m, runs), <<>>, NoTrack)
    /\ UNCHANGED sinceLogFetch

\* a sessions result whose archive fetch the environment delivers
SessionsRefresh(ss, env) ==
    /\ Step(UpdateSessions(m, ss), <<>>, env.track)
    /\ UNCHANGED sinceLogFetch

\* the archive fetch c (lines 190-196) has read the directory dir
ArchivedFetched(c, dir) ==
    /\ c.c = "fetchArchived"
    /\ \E runs \in FetchArchivedRuns(c.p[1], dir) : Step(UpdateArchived(m, runs), <<c>>, NoTrack)
    /\ UNCHANGED sinceLogFetch

ProcessesMsg(ps) ==
    /\ Step(UpdateProcesses(m, ps), <<>>, NoTrack)
    /\ UNCHANGED sinceLogFetch

HealthMsg(h) ==
    /\ Step(UpdateHealth(m, h), <<>>, NoTrack)
    /\ UNCHANGED sinceLogFetch

\* a failed poll
PollErrMsg(text) ==
    /\ Step(UpdateErr(m, text), <<>>, NoTrack)
    /\ UNCHANGED sinceLogFetch

TickSessionsMsg ==
    /\ Step(UpdateTickSessions(m), <<>>, NoTrack)
    /\ UNCHANGED sinceLogFetch

TickProcessesMsg ==
    /\ Step(UpdateTickProcesses(m), <<>>, NoTrack)
    /\ UNCHANGED sinceLogFetch

TickHealthMsg ==
    /\ Step(UpdateTickHealth(m), <<>>, NoTrack)
    /\ UNCHANGED sinceLogFetch

TickLogsMsg(env) ==
    /\ m.selectedLogID # <<>>
    /\ Step(UpdateTickLogs(m, sinceLogFetch), <<>>, env.track)
    /\ UNCHANGED sinceLogFetch

\* A logsMsg arrives for the fetch c (fetchLogs, lines 206-250), which
\* carries the tab and the verbosity of the time it was issued.
LogsMsgArrives(c, msg) ==
    /\ c.c = "fetchLogs"
    /\ Step(UpdateLogs(m, msg), <<c>>, NoTrack)
    /\ sinceLogFetch' = 0

\* lines 219-228: the history of a session; when the API answers
\* "forbidden" the messages are read from the session's transcript file
\* (types.go lines 466-484)
SessionLogsMsg(c, records, forbidden) ==
    LET msgs == IF forbidden THEN ReadTranscriptMessages(records)
                ELSE FetchSessionMessages(records)
        content == compressLogContent(cleanLogContent(FormatHistory(msgs, c.p[3])))
    IN  /\ c.c = "fetchLogs"
        /\ c.p[2] = tabSessions
        /\ LogsMsgArrives(c, LogsMsg(content, extractQuery(content), msgs, c.p[2]))

\* lines 229-238: the transcript of an archived run
TranscriptLogsMsg(c, records) ==
    LET content == compressLogContent(cleanLogContent(ReadTranscriptVerbose(records, c.p[3])))
    IN  /\ c.c = "fetchLogs"
        /\ c.p[2] = tabHistory
        /\ LogsMsgArrives(c, LogsMsg(content, extractQuery(content), <<>>, c.p[2]))

\* lines 239-247: the log of a process
RawLogsMsg(c, raw) ==
    LET content == cleanLogContent(raw)
    IN  /\ c.c = "fetchLogs"
        /\ c.p[2] = tabProcesses
        /\ LogsMsgArrives(c, LogsMsg(content, extractQuery(content), <<>>, c.p[2]))

\* the reply to a sent message; the log holds at most MaxLogLines lines
AgentReplyMsg(c, reply, env) ==
    /\ c.c = "send"
    /\ Len(UpdateAgentReply(m, reply).m.logContent) <= MaxLogLines
    /\ Step(UpdateAgentReply(m, reply), <<c>>, env.track)
    /\ UNCHANGED sinceLogFetch

ModelListMsg(c, models) ==
    /\ c.c = "fetchModels"
    /\ Step(UpdateModelList(m, models), <<c>>, NoTrack)
    /\ UNCHANGED sinceLogFetch

SpawnSuccessMsg(c, result) ==
    /\ c.c = "spawn"
    /\ Step(UpdateSpawnSuccess(m, result), <<c>>, NoTrack)
    /\ UNCHANGED sinceLogFetch

\* killProcess (lines 901-906) answers with a process tick
KillDone(c, env) ==
    /\ c.c = "kill"
    /\ Step(UpdateTickProcesses(m), <<c>>, env.track)
    /\ UNCHANGED sinceLogFetch

\* the timer c fires: its tick message is handled
TimerFires(c, env) ==
    /\ c.c \in TimerKinds
    /\ Step(CASE c.c = "tickSessions" -> UpdateTickSessions(m)
              [] c.c = "tickProcesses" -> UpdateTickProcesses(m)
              [] c.c = "tickHealth" -> UpdateTickHealth(m)
              [] c.c = "tickLogs" -> UpdateTickLogs(m, sinceLogFetch),
            <<c>>, env.track)
    /\ UNCHANGED sinceLogFetch

\* the text of a failed command's error
ErrText(kind) ==
    CASE kind = "send" -> "send: err"
      [] kind = "spawn" -> "spawn: err"
      [] OTHER -> "logs: err"

\* a failed send, spawn or log fetch
IntentErrMsg(c) ==
    /\ c.c \in {"send", "spawn", "fetchLogs"}
    /\ Step(UpdateErr(m, ErrText(c.c)), <<c>>, NoTrack)
    /\ UNCHANGED sinceLogFetch

\* a second passes
Elapse ==
    /\ Running
    /\ sinceLogFetch < LogThrottle \/ sinceLogIssue < LogThrottle
    /\ sinceLogFetch' = min(LogThrottle, sinceLogFetch + 1)
    /\ sinceLogIssue' = min(LogThrottle, sinceLogIssue + 1)
    /\ UNCHANGED <<m, inflight, quit>>

(***************************************************************************)
(* Spec: the interaction state machine.                                    *)
(***************************************************************************)
SpawnResults == { "n1" }

ModeKeys == (Keys \ Runes) \cup {"j", "q"}

NormalKeys == {"/", "m", "s", "x", "2", "f", "tab"}

SpecSessions == { <<SessSub, SessRoot>> }

SpecProcesses == { <<Process(<<"p", "1">>, <<"m", "k">>)>> }

SpecEnv == Env({"spawn"}, MaxText)

Next ==
    \/ \E k \in ModeKeys : KeySearching(k, SpecEnv)
    \/ \E k \in ModeKeys : KeyMessaging(k, SpecEnv)
    \/ \E k \in ModeKeys : KeySpawning(k, SpecEnv)
    \/ \E k \in Keys : KeyConfirming(k, SpecEnv)
    \/ \E k \in NormalKeys : KeyNormal(k, SpecEnv)
    \/ \E ss \in SpecSessions : SessionsMsg(ss)
    \/ \E ps \in SpecProcesses : ProcessesMsg(ps)
    \/ \E c \in BagToSet(inflight), result \in SpawnResults : SpawnSuccessMsg(c, result)

Spec == Init /\ [][Next]_vars

(***************************************************************************)
(* SpecSpawn: the spawn form, the model list and the outcome of a spawn.   *)
(***************************************************************************)
SpawnKeys == {"a", "tab", "enter", "esc", "up", "down", "backspace"}

SpawnSessions ==
    { <<SessSub>>, <<SessSub, SessRoot>>, <<SessKind, SessSub>>, <<SessNoID, SessRoot>> }

SpawnEnv == Env({"spawn", "fetchModels"}, MaxForm)

NextSpawn ==
    \/ \E k \in keys.Spawn : KeyNormal(k, SpawnEnv)
    \/ \E k \in SpawnKeys : KeySpawning(k, SpawnEnv)
    \/ \E ss \in SpawnSessions : SessionsMsg(ss)
    \/ \E c \in BagToSet(inflight), models \in ModelLists : ModelListMsg(c, models)
    \/ \E c \in BagToSet(inflight), result \in SpawnResults : SpawnSuccessMsg(c, result)
    \/ \E c \in BagToSet(inflight) : IntentErrMsg(c)

SpecSpawn == Init /\ [][NextSpawn]_vars

(***************************************************************************)
(* SpecMsg: composing and sending a message to a session.                  *)
(***************************************************************************)
MsgKeys == {"m", "j", "k", "1", "2"}

MsgModeKeys == (Keys \ Runes) \cup {"a", "q"}

MsgEnv == Env({"send"}, MaxText)

NextMsg ==
    \/ \E k \in MsgKeys : KeyNormal(k, MsgEnv)
    \/ \E k \in MsgModeKeys : KeyMessaging(k, MsgEnv)
    \/ \E ss \in SessionLists : SessionsMsg(ss)
    \/ \E c \in BagToSet(inflight), reply \in Replies : AgentReplyMsg(c, reply, MsgEnv)
    \/ \E c \in BagToSet(inflight) : IntentErrMsg(c)

SpecMsg == Init /\ [][NextMsg]_vars

(***************************************************************************)
(* SpecKill: confirming and killing a process, among the polls and their   *)
(* ticks.                                                                  *)
(***************************************************************************)
HealthValues == { "ok" }

PollErrors == { "sessions: err" }

KillKeys == {"x", "j", "k", "1", "2", "3"}

KillEnv == Env({"kill"}, MaxText)

NextKill ==
    \/ \E k \in KillKeys : KeyNormal(k, KillEnv)
    \/ \E k \in Keys : KeyConfirming(k, KillEnv)
    \/ \E ps \in ProcessLists : ProcessesMsg(ps)
    \/ \E ss \in SpecSessions : SessionsMsg(ss)
    \/ \E c \in BagToSet(inflight) : KillDone(c, KillEnv)
    \/ \E h \in HealthValues : HealthMsg(h)
    \/ \E text \in PollErrors : PollErrMsg(text)
    \/ TickSessionsMsg
    \/ TickProcessesMsg
    \/ TickHealthMsg

SpecKill == Init /\ [][NextKill]_vars

(***************************************************************************)
(* SpecFrame: every key in every mode, no result of an intent delivered.   *)
(***************************************************************************)
FrameKeys == NormalKeys

FrameEnv == Env(NoTrack, MaxText)

NextFrame ==
    \/ \E k \in Keys : KeySearching(k, FrameEnv)
    \/ \E k \in Keys : KeyMessaging(k, FrameEnv)
    \/ \E k \in Keys : KeySpawning(k, FrameEnv)
    \/ \E k \in Keys : KeyConfirming(k, FrameEnv)
    \/ \E k \in FrameKeys : KeyNormal(k, FrameEnv)
    \/ \E ss \in SpecSessions : SessionsMsg(ss)
    \/ \E ps \in SpecProcesses : ProcessesMsg(ps)

SpecFrame == Init /\ [][NextFrame]_vars

(***************************************************************************)
(* SpecLog: the display buffer under the updates of a process log, the     *)
(* log ticks, the scroll and follow keys and window resizes.               *)
(***************************************************************************)
LogKeys == {"2", "enter", "f", "up", "down", "pgup", "pgdown"}

WindowSizes == { <<60, 9>>, <<100, 12>> }

LogEnv == Env({"fetchLogs"}, MaxText)

NextLog ==
    \/ \E k \in LogKeys : KeyNormal(k, LogEnv)
    \/ \E ps \in SpecProcesses : ProcessesMsg(ps)
    \/ \E ws \in WindowSizes : WindowSizeMsg(ws[1], ws[2])
    \/ \E c \in BagToSet(inflight), raw \in RawContents : RawLogsMsg(c, raw)
    \/ TickLogsMsg(LogEnv)
    \/ Elapse

SpecLog == Init /\ [][NextLog]_vars

(***************************************************************************)
(* SpecNorm: the logs of sessions and archived runs, from records of the   *)
(* history API and of transcript files, at each verbosity.                 *)
(***************************************************************************)
call1 == ToolCall("read", "doc")

call2 == ToolCall("exec", "cmd")

\* results that carry no argument summary of their own
result1 == ResultRec("read", "", <<la>>, FALSE)

result2 == ResultRec("exec", "", <<lb, lc>>, TRUE)

\* two calls and their two results, in order
RecsPlain == << UserRec(<<la>>), AssistantRec(<<>>, <<call1, call2>>), result1, result2 >>

\* the same with a user message between the calls and the results
RecsUserBetween == << AssistantRec(<<>>, <<call1, call2>>), UserRec(<<lb>>), result1, result2 >>

\* the same with an assistant message between them
RecsAssistantBetween ==
    << AssistantRec(<<>>, <<call1, call2>>), AssistantRec(<<lc>>, <<>>), result1, result2 >>

\* an assistant record that holds text and a call
RecsTextAndCall == << AssistantRec(<<ld>>, <<call1>>), result1 >>

PairingCases == { RecsPlain, RecsUserBetween, RecsAssistantBetween }

RecordLists == PairingCases \cup { <<>>, RecsTextAndCall }

NormKeys == {"3", "enter", "v"}

NormSessions == { <<SessSub>> }

NormEnv == Env({"fetchLogs"}, MaxText)

NextNorm ==
    \/ \E k \in NormKeys : KeyNormal(k, NormEnv)
    \/ \E ss \in NormSessions : SessionsMsg(ss)
    \/ \E runs \in ArchivedLists : ArchivedMsg(runs)
    \/ \E c \in BagToSet(inflight), records \in RecordLists, forbidden \in BOOLEAN :
          SessionLogsMsg(c, records, forbidden)
    \/ \E c \in BagToSet(inflight), records \in RecordLists : TranscriptLogsMsg(c, records)

SpecNorm == Init /\ [][NextNorm]_vars

(***************************************************************************)
(* SpecSelect: the keys of Normal mode that act on the item under the      *)
(* cursor, with lists that change under the cursor and under the filter.   *)
(***************************************************************************)
SelectKeys == {"m", "x", "j", "1", "2", "/"}

SelectSearchKeys == {"x", "esc", "enter", "backspace"}

SelectEnv == Env(NoTrack, MaxText)

NextSelect ==
    \/ \E k \in SelectKeys : KeyNormal(k, SelectEnv)
    \/ \E k \in SelectSearchKeys : KeySearching(k, SelectEnv)
    \/ \E k \in keys.Escape : KeyMessaging(k, SelectEnv)
    \/ \E k \in keys.ConfirmN : KeyConfirming(k, SelectEnv)
    \/ \E ss \in SessionLists : SessionsMsg(ss)
    \/ \E ps \in ProcessLists : ProcessesMsg(ps)

SpecSelect == Init /\ [][NextSelect]_vars

(***************************************************************************)
(* SpecErr: a send and a spawn in flight together, and the errors of       *)
(* commands and polls.                                                     *)
(***************************************************************************)
ErrKeys == {"m", "s"}

ErrModeKeys == {"a", "enter", "esc"}

ErrEnv == Env({"send", "spawn"}, MaxText)

NextErr ==
    \/ \E k \in ErrKeys : KeyNormal(k, ErrEnv)
    \/ \E k \in ErrModeKeys : KeyMessaging(k, ErrEnv)
    \/ \E k \in ErrModeKeys : KeySpawning(k, ErrEnv)
    \/ \E ss \in SpecSessions : SessionsMsg(ss)
    \/ \E c \in BagToSet(inflight), reply \in Replies : AgentReplyMsg(c, reply, ErrEnv)
    \/ \E c \in BagToSet(inflight), result \in SpawnResults : SpawnSuccessMsg(c, result)
    \/ \E c \in BagToSet(inflight) : IntentErrMsg(c)
    \/ \E text \in PollErrors : PollErrMsg(text)

SpecErr == Init /\ [][NextErr]_vars

(***************************************************************************)
(* SpecView: the tabs and the archived runs on a window of known size,     *)
(* with the quit key in Normal and in Searching mode.                      *)
(***************************************************************************)
\* an archived run without a label, named after a transcript file "b.jsonl"
RunShort == ArchivedRun(<<"b">>, <<>>, 1, <<"/", "b", ".jsonl">>)

ViewArchived == ArchivedLists \cup { <<RunShort>> }

ViewKeys == {"1", "2", "3", "/", "q", "ctrl+c", "j"}

ViewSearchKeys == {"q", "ctrl+c", "enter", "esc"}

ViewEnv == Env(NoTrack, MaxText)

NextView ==
    \/ \E k \in ViewKeys : KeyNormal(k, ViewEnv)
    \/ \E k \in ViewSearchKeys : KeySearching(k, ViewEnv)
    \/ \E ws \in WindowSizes : WindowSizeMsg(ws[1], ws[2])
    \/ \E ss \in SpecSessions : SessionsMsg(ss)
    \/ \E ps \in ProcessLists : ProcessesMsg(ps)
    \/ \E runs \in ViewArchived : ArchivedMsg(runs)
    \/ \E text \in PollErrors : PollErrMsg(text)

SpecView == Init /\ [][NextView]_vars

(***************************************************************************)
(* SpecCompress: compressLogContent as a function of a cleaned text.  The  *)
(* text is the parameter of a command in flight, and the log panel takes   *)
(* its compression.                                                        *)
(***************************************************************************)
MaxCompressLines == 5

\* a line of white space
lSpace == Line("space", "", "", 2)

\* "--- ASSISTANT (o) ---" and "--- USER ---"
lHdrAssistant == Line("banner_ascii", "ASSISTANT", "o", 21)

lHdrUser == Line("banner_ascii", "USER", "", 12)

\* "Now let's look:"
lFiller == Line("filler", "look", "", 15)

\* the lines of a cleaned text: blank lines, role banners, another banner,
\* planning filler and ordinary lines
CompressLines ==
    { Blank, lSpace, lHdrAssistant, lHdrUser, CleanLine(SentLine)[1], lFiller, la }

CompressTexts ==
    UNION { [1..n -> CompressLines] : n \in 1..MaxCompressLines }

InitCompress ==
    /\ m = NewModel
    /\ \E x \in CompressTexts : inflight = SetToBag({Cmd("compress", x)})
    /\ sinceLogFetch = LogThrottle
    /\ sinceLogIssue = LogThrottle
    /\ quit = FALSE

\* lines 296-337 applied to the text x
Compress(x) ==
    /\ m' = [m EXCEPT !.logContent = compressLogContent(x)]
    /\ UNCHANGED <<inflight, sinceLogFetch, sinceLogIssue, quit>>

NextCompress == \E c \in BagToSet(inflight) : Compress(c.p)

SpecCompress == InitCompress /\ [][NextCompress]_vars

(***************************************************************************)
(* SpecClean: cleanLogContent as a function of the bytes of a text.  The   *)
(* text is the parameter of a command in flight; its cleaning replaces it  *)
(* by a command that carries the text and the cleaned text.                *)
(***************************************************************************)
MaxCleanLen == 5

CleanChars == {"ESC", "[", "]", "\\", "0", ";", "?", "m", "BEL", "CR"}

CleanTexts == UNION { [1..n -> CleanChars] : n \in 1..MaxCleanLen }

InitClean ==
    /\ m = NewModel
    /\ \E x \in CleanTexts : inflight = SetToBag({Cmd("clean", x)})
    /\ sinceLogFetch = LogThrottle
    /\ sinceLogIssue = LogThrottle
    /\ quit = FALSE

\* lines 254-290 applied to the text of the command c
Clean(c) ==
    /\ c.c = "clean"
    /\ inflight' = SetToBag({Cmd("cleaned", <<c.p, cleanLogBytes(c.p)>>)})
    /\ UNCHANGED <<m, sinceLogFetch, sinceLogIssue, quit>>

NextClean == \E c \in BagToSet(inflight) : Clean(c)

SpecClean == InitClean /\ [][NextClean]_vars

(***************************************************************************)
(* SpecFormat: FormatHistory as a function of a message list and a         *)
(* verbosity.  Both are the parameter of a command in flight; formatting   *)
(* replaces it by a command that carries them and the formatted text.      *)
(***************************************************************************)
MaxMsgs == 4

\* an error text of seven lines
ErrSeven == <<lc, ld, lc, ld, lc, ld, lc>>

FormatMsgs ==
    { UserMsg(<<la>>), AssistantMsg(<<lb>>), AssistantMsg(<<>>),
      ToolUseMsg("exec", "cmd"), ToolUseMsg("exec", sTwoLines),
      ToolResultMsg("exec", "", <<lc>>, FALSE),
      ToolResultMsg("exec", "", <<ld, lc>>, TRUE),
      ToolResultMsg("read", "doc", ErrSeven, TRUE) }

FormatInputs ==
    (UNION { [1..n -> FormatMsgs] : n \in 1..MaxMsgs })
        \X {VerboseSummary, VerboseFull, VerboseOff}

InitFormat ==
    /\ m = NewModel
    /\ \E x \in FormatInputs : inflight = SetToBag({Cmd("format", x)})
    /\ sinceLogFetch = LogThrottle
    /\ sinceLogIssue = LogThrottle
    /\ quit = FALSE

\* types.go lines 716-817 applied to the messages and verbosity of c
Format(c) ==
    /\ c.c = "format"
    /\ inflight' = SetToBag({Cmd("formatted",
                                 <<c.p[1], c.p[2], FormatHistory(c.p[1], c.p[2])>>)})
    /\ UNCHANGED <<m, sinceLogFetch, sinceLogIssue, quit>>

NextFormat == \E c \in BagToSet(inflight) : Format(c)

SpecFormat == InitFormat /\ [][NextFormat]_vars

(***************************************************************************)
(* SpecWrap: the wrapping of a content at a width, as the renderer does it *)
(* and as maxLogScroll counts it.  Content and width are the parameter of  *)
(* a command in flight; wrapping replaces it by a command that carries     *)
(* them, the renderer's rows and maxLogScroll's count.                     *)
(***************************************************************************)
MaxWrapLines == 2

\* the lengths of the raw lines, the scenario's 200 bytes among them
WrapLengths == 0..12 \cup {40, 80, 200}

WrapWidths == 1..5 \cup {40}

\* a line wraps into at most this many rows
MaxWrapRows == 40

WrapInputs ==
    { x \in (UNION { [1..k -> {TextLine("raw", n) : n \in WrapLengths}] :
                        k \in 1..MaxWrapLines }) \X WrapWidths :
        \A i \in 1..Len(x[1]) : x[1][i].n <= MaxWrapRows * x[2] }

InitWrap ==
    /\ m = NewModel
    /\ \E x \in WrapInputs : inflight = SetToBag({Cmd("wrap", x)})
    /\ sinceLogFetch = LogThrottle
    /\ sinceLogIssue = LogThrottle
    /\ quit = FALSE

\* part_002 lines 1455-1469 and 1032-1040 applied to the content and width
\* of c
Wrap(c) ==
    /\ c.c = "wrap"
    /\ inflight' = SetToBag({Cmd("wrapped",
                                 <<c.p[1], c.p[2], WrapContent(c.p[1], c.p[2]),
                                   TotalRows(c.p[1], c.p[2])>>)})
    /\ UNCHANGED <<m, sinceLogFetch, sinceLogIssue, quit>>

NextWrap == \E c \in BagToSet(inflight) : Wrap(c)

SpecWrap == InitWrap /\ [][NextWrap]_vars

(***************************************************************************)
(* SpecFilter: filteredSessions as a function of the session list and the  *)
(* filter text.  Both are the parameter of a command in flight; filtering  *)
(* replaces it by a command that carries them and the filtered list.       *)
(***************************************************************************)
MaxFilterSessions == 3

sSig == <<"s", "i", "g">>

\* a session of the channel "signal" and one of the channel "matrix"
SessSignal == Session(<<"a">>, <<>>, <<"s", "i", "g", "n", "a", "l">>, <<>>, <<>>)

SessMatrix == Session(<<"b">>, <<>>, <<"m", "a", "t", "r", "i", "x">>, <<>>, <<>>)

\* a session with a kind, a label, a display name and a model of its own
SessNamed ==
    [Session(<<"c">>, <<"S", "u", "b">>, <<>>, <<"f", "i", "x">>, <<>>)
        EXCEPT !.DisplayName = <<"S", "i", "g", "h", "t">>, !.Model = <<"g", "p", "t">>]

FilterTexts ==
    { <<>>, sSig, <<"S", "i", "g">>, <<"M", "a">>, <<"c">>, <<"u", "b">>, <<"g", "p">>,
      <<"g", "h">>, <<"f", "i">>, <<"i">>, <<"z">> }

FilterInputs ==
    ({<<>>} \cup UNION { [1..n -> {SessSignal, SessMatrix, SessNamed}] :
                            n \in 1..MaxFilterSessions })
        \X FilterTexts

InitFilter ==
    /\ m = NewModel
    /\ \E x \in FilterInputs : inflight = SetToBag({Cmd("filter", x)})
    /\ sinceLogFetch = LogThrottle
    /\ sinceLogIssue = LogThrottle
    /\ quit = FALSE

\* part_002 lines 957-974 on a Model with the sessions and the filter of c
Filter(c) ==
    /\ c.c = "filter"
    /\ inflight' = SetToBag({Cmd("filtered",
                                 <<c.p[1], c.p[2],
                                   filteredSessions([m EXCEPT !.sessions = c.p[1],
                                                              !.filter = c.p[2]])>>)})
    /\ UNCHANGED <<m, sinceLogFetch, sinceLogIssue, quit>>

NextFilter == \E c \in BagToSet(inflight) : Filter(c)

SpecFilter == InitFilter /\ [][NextFilter]_vars

(***************************************************************************)
(* SpecArchive: the sessions refresh, the archive fetch it starts and the  *)
(* transcript directory the fetch reads.                                   *)
(***************************************************************************)
\* the active sessions "a" and "c"
SessA == Session(<<"k", "a">>, <<>>, <<>>, <<>>, <<"a">>)

SessC == Session(<<"k", "c">>, <<>>, <<>>, <<>>, <<"c">>)

ArchSessions == { <<>>, <<SessA>>, <<SessA, SessC>> }

\* the transcripts a.jsonl, b.jsonl and c.jsonl (b and c of one
\* modification time), a transcript that is gone when it is looked at, a
\* file of another kind and a directory named like a transcript
FileA == DirEntry(<<"a">> \o sJsonl, FALSE, FALSE, 3, <<"h", "i">>)

FileB == DirEntry(<<"b">> \o sJsonl, FALSE, FALSE, 2, <<>>)

FileC == DirEntry(<<"c">> \o sJsonl, FALSE, FALSE, 2, <<"g", "o">>)

FileGone == DirEntry(<<"g">> \o sJsonl, FALSE, TRUE, 4, <<>>)

FileTxt == DirEntry(<<"b", ".txt">>, FALSE, FALSE, 5, <<>>)

DirD == DirEntry(<<"d">> \o sJsonl, TRUE, FALSE, 6, <<>>)

ArchDirs ==
    { [ok |-> FALSE, entries |-> {}],
      [ok |-> TRUE, entries |-> {}],
      [ok |-> TRUE, entries |-> {FileA, FileB}],
      [ok |-> TRUE, entries |-> {FileA, FileB, FileC, FileTxt, DirD}],
      [ok |-> TRUE, entries |-> {FileB, FileGone, DirD}] }

ArchKeys == {"3", "j", "1"}

ArchEnv == Env({"fetchArchived"}, MaxText)

NextArchive ==
    \/ \E ss \in ArchSessions : SessionsRefresh(ss, ArchEnv)
    \/ \E c \in BagToSet(inflight), dir \in ArchDirs : ArchivedFetched(c, dir)
    \/ \E k \in ArchKeys : KeyNormal(k, ArchEnv)

SpecArchive == Init /\ [][NextArchive]_vars

(***************************************************************************)
(* SpecParse: the canonical messages of a record list in the two input     *)
(* formats.  Records and format are the parameter of a command in flight;  *)
(* parsing replaces it by a command that carries them and the messages.    *)
(***************************************************************************)
MaxRecords == 2

\* assistant records with 0, 1 and 2 tool-call blocks, with and without
\* text, a user record and a tool result
ParseRecords ==
    { AssistantRec(text, calls) :
        text \in {<<>>, <<ld>>}, calls \in {<<>>, <<call1>>, <<call1, call2>>} }
        \cup { UserRec(<<la>>), result1 }

ParseInputs ==
    (UNION { [1..n -> ParseRecords] : n \in 1..MaxRecords }) \X {"api", "file"}

InitParse ==
    /\ m = NewModel
    /\ \E x \in ParseInputs : inflight = SetToBag({Cmd("parse", x)})
    /\ sinceLogFetch = LogThrottle
    /\ sinceLogIssue = LogThrottle
    /\ quit = FALSE

\* types.go lines 499-594 (history API) and 1196-1345 (transcript file)
\* applied to the records of c
Parse(c) ==
    /\ c.c = "parse"
    /\ inflight' = SetToBag({Cmd("parsed",
                                 <<c.p[1], c.p[2],
                                   IF c.p[2] = "api" THEN FetchSessionMessages(c.p[1])
                                   ELSE ReadTranscriptMessages(c.p[1])>>)})
    /\ UNCHANGED <<m, sinceLogFetch, sinceLogIssue, quit>>

NextParse == \E c \in BagToSet(inflight) : Parse(c)

SpecParse == InitParse /\ [][NextParse]_vars

(***************************************************************************)
(* SpecTimers: the tick timers.  The timers Init arms are pending at the   *)
(* start; every timer a handler returns stays pending until it fires.      *)
(***************************************************************************)
TimerKeys == {"2", "enter", "x"}

TimerConfirmKeys == {"y", "n"}

TimerEnv == Env(TimerKinds \cup {"kill"}, MaxText)

InitTimers ==
    /\ m = NewModel
    /\ inflight = TrackedBag(InitCmds, TimerEnv.track)
    /\ sinceLogFetch = LogThrottle
    /\ sinceLogIssue = LogThrottle
    /\ quit = FALSE

NextTimers ==
    \/ \E k \in TimerKeys : KeyNormal(k, TimerEnv)
    \/ \E k \in TimerConfirmKeys : KeyConfirming(k, TimerEnv)
    \/ \E ps \in ProcessLists : ProcessesMsg(ps)
    \/ \E c \in BagToSet(inflight) : TimerFires(c, TimerEnv)
    \/ \E c \in BagToSet(inflight) : KillDone(c, TimerEnv)
    \/ Elapse

SpecTimers == InitTimers /\ [][NextTimers]_vars

(***************************************************************************)
(* SpecReply: a message sent to a session while the log panel shows a      *)
(* session or a process, and the reply that arrives later.                 *)
(***************************************************************************)
ReplyKeys == {"m", "enter", "j", "1", "2"}

ReplyModeKeys == {"a", "enter", "esc"}

ReplyEnv == Env({"send", "fetchLogs"}, MaxText)

NextReply ==
    \/ \E k \in ReplyKeys : KeyNormal(k, ReplyEnv)
    \/ \E k \in ReplyModeKeys : KeyMessaging(k, ReplyEnv)
    \/ \E ss \in SpecSessions : SessionsMsg(ss)
    \/ \E ps \in SpecProcesses : ProcessesMsg(ps)
    \/ \E c \in BagToSet(inflight) : SessionLogsMsg(c, RecsTextAndCall, FALSE)
    \/ \E c \in BagToSet(inflight) : RawLogsMsg(c, <<la>>)
    \/ \E c \in BagToSet(inflight), reply \in Replies : AgentReplyMsg(c, reply, ReplyEnv)

SpecReply == Init /\ [][NextReply]_vars

(***************************************************************************)
(* SpecFollow: follow mode and the log timer.  The log timers and the log  *)
(* fetches stay pending until they fire or are answered.  SpecFollowFair   *)
(* adds what the runtime guarantees: a pending timer fires, time passes,   *)
(* and a fetch in flight is answered.                                      *)
(***************************************************************************)
FollowKeys == {"2", "enter", "f", "up", "down"}

FollowContents == { <<la>>, <<la, lb, lc, ld, la, lb>> }

FollowEnv == Env({"tickLogs", "fetchLogs"}, MaxText)

LogTimerFires == \E c \in BagToSet(inflight) : TimerFires(c, FollowEnv)

\* lines 239-247: a log fetch in flight is answered, by an error or by the
\* log
LogFetchAnswered ==
    \E c \in BagToSet(inflight) :
        \/ IntentErrMsg(c)
        \/ \E raw \in FollowContents : RawLogsMsg(c, raw)

NextFollow ==
    \/ \E k \in FollowKeys : KeyNormal(k, FollowEnv)
    \/ \E ps \in SpecProcesses : ProcessesMsg(ps)
    \/ WindowSizeMsg(60, 9)
    \/ LogTimerFires
    \/ LogFetchAnswered
    \/ Elapse

SpecFollow == Init /\ [][NextFollow]_vars

SpecFollowFair ==
    /\ SpecFollow
    /\ WF_vars(LogTimerFires)
    /\ WF_vars(LogFetchAnswered)
    /\ WF_vars(Elapse)

(***************************************************************************)
(* The claims.                                                             *)
(***************************************************************************)
\* the commands of a kind in flight
KindIn(b, kind) == {c \in BagToSet(b) : c.c = kind}

\* the modes that are active
ActiveModes ==
    {md \in {"searching", "messaging", "spawning", "confirming"} : m[md]}

\* C1: in every reachable state at most one of the flags searching,
\* messaging, spawning and confirming is true.
C1_AtMostOneMode == Cardinality(ActiveModes) <= 1

\* C1: confirming a kill after the search, the message input and the spawn
\* form have each been used, with a spawn still awaiting its result
C1_Witness ==
    /\ m.confirming
    /\ m.searchInput.f
    /\ m.msgInput.f
    /\ m.spawnSpinning
    /\ \E c \in BagToSet(inflight) : c.c = "spawn"

\* the modes active in a Model
ModesOf(mm) ==
    {md \in {"searching", "messaging", "spawning", "confirming"} : mm[md]}

\* what the Normal-mode bindings act on
NormalState(mm) ==
    << mm.activeTab, mm.activePanel, mm.sessionCursor, mm.processCursor,
       mm.historyCursor, mm.logScrollPos, mm.logFollow, mm.verboseLevel,
       mm.sourceFilter, mm.selectedLogID >>

\* a key event handled while a mode is active
ModalKeyStep == ModesOf(m) # {} /\ \E k \in Keys : KeyMsg(k, FrameEnv)

\* C2: while Searching, Messaging, Spawning or Confirming is active, a key
\* event changes none of activeTab, activePanel, the list cursors,
\* logScrollPos, logFollow, verboseLevel, sourceFilter and selectedLogID,
\* does not quit, and enters no other mode.
C2_ModalKeysCaptured ==
    [][\/ /\ NormalState(m') = NormalState(m)
          /\ quit' = quit
          /\ ModesOf(m') \subseteq ModesOf(m)
       \/ ~ModalKeyStep]_vars

\* C2: the spawn form has taken the quit key as text, after the search
\* and the message input were used, with the process tab and the log panel
\* open and follow switched off
C2_Witness ==
    /\ m.spawning
    /\ m.spawnPrompt.v = <<"q">>
    /\ m.searchInput.f
    /\ m.msgInput.f
    /\ m.activeTab = tabProcesses
    /\ m.activePanel = panelLogs
    /\ ~m.logFollow

\* a logsMsg carrying the content raw is applied to the display buffer
LogUpdateStep(raw) ==
    \E c \in KindIn(inflight, "fetchLogs") : RawLogsMsg(c, raw)

\* the wrapped lines of a content at the width of the log panel
WrappedLines(mm, content) ==
    IF content = EmptyContent THEN 0 ELSE TotalRows(content, logWidth(mm))

\* content a is content b with lines appended
Appends(a, b) == Len(a) > Len(b) /\ SubSeq(a, 1, Len(b)) = b

\* C3: when a log update with changed content is applied while follow is
\* on and the content grows from N to M > N wrapped lines at a constant
\* viewport height H, the resulting scroll offset is max(0, M - H).
C3_FollowShowsBottom ==
    [][\A raw \in RawContents :
          (/\ m.logFollow
           /\ Sha256(cleanLogContent(raw)) # m.logContentHash
           /\ WrappedLines(m, cleanLogContent(raw)) > WrappedLines(m, m.logContent)
           /\ LogUpdateStep(raw)
           /\ ViewH(m') = ViewH(m))
          => m'.logScrollPos =
                 max(0, WrappedLines(m', cleanLogContent(raw)) - ViewH(m'))]_vars

\* C4: when a log update that appends lines is applied while follow is
\* off, with scroll offset s and maximum scroll mx before the update and
\* maximum scroll mx' after it, the resulting scroll offset is
\* max(0, mx' - (mx - s)): the distance from the bottom is preserved.
C4_AnchorKeepsDistance ==
    [][\A raw \in RawContents :
          (/\ ~m.logFollow
           /\ Appends(cleanLogContent(raw), m.logContent)
           /\ Sha256(cleanLogContent(raw)) # m.logContentHash
           /\ LogUpdateStep(raw))
          => m'.logScrollPos =
                 max(0, maxLogScroll(m', logWidth(m'))
                          - (maxLogScroll(m, logWidth(m)) - m.logScrollPos))]_vars

\* C5: when a log update arrives whose content is byte-identical to the
\* content of the previously applied update, the content, the scroll
\* offset, the follow flag and the wrapped-lines cache stay as they are.
C5_SameContentNoChange ==
    [][\A raw \in RawContents :
          (Sha256(cleanLogContent(raw)) = m.logContentHash /\ LogUpdateStep(raw))
          => /\ m'.logContent = m.logContent
             /\ m'.logScrollPos = m.logScrollPos
             /\ m'.logFollow = m.logFollow
             /\ m'.lastLogContent = m.lastLogContent
             /\ m'.lastLogWidth = m.lastLogWidth
             /\ m'.wrappedLines = m.wrappedLines]_vars

\* C5: an item was selected again, which emptied the panel, and its fetch
\* has brought the content of the last applied update once more: the
\* panel is still empty
C5_Witness ==
    /\ m.selectedLogID # <<>>
    /\ m.logContent = EmptyContent
    /\ m.logContentHash \notin {NoHash, Sha256(EmptyContent)}
    /\ KindIn(inflight, "fetchLogs") = {}

\* the argument summaries of the tool lines of a content, top to bottom
ToolArgsShown(content) ==
    LET tools == SelectIdx(content, LAMBDA l : l.k \in {"tool_ok", "tool_err"})
    IN  [i \in 1..Len(tools) |-> tools[i].a]

\* a log update made from the records arrives, in either format: the
\* history API's, or a transcript file's (read for an archived run, or for
\* a session whose history the API refuses)
RecordsUpdateStep(records) ==
    \E c \in KindIn(inflight, "fetchLogs") :
        /\ c.p[3] = VerboseSummary
        /\ \/ \E forbidden \in BOOLEAN : SessionLogsMsg(c, records, forbidden)
           \/ TranscriptLogsMsg(c, records)

\* C6: for tool calls c1, c2 followed by tool results r1, r2, r1 is shown
\* with c1's argument summary and r2 with c2's, also when a user or an
\* assistant message lies between the calls and the results, for records
\* of the history API and of a transcript file alike.
C6_FifoPairing ==
    [][\A records \in PairingCases :
          (RecordsUpdateStep(records) /\ m'.logContentHash # m.logContentHash)
          => ToolArgsShown(m'.logContent) = <<call1.Args, call2.Args>>]_vars

\* the spawn intents in flight
SpawnsIn(b) == {c \in BagToSet(b) : c.c = "spawn"}

\* Enter handled by the spawn form
SpawnEnterStep == m.spawning /\ \E k \in keys.Enter : KeySpawning(k, SpawnEnv)

\* the result of a spawn arrives
SpawnResultStep ==
    \E c \in SpawnsIn(inflight), result \in SpawnResults : SpawnSuccessMsg(c, result)

\* some session is of kind main or has a key ending in ":main"
MainSessionExists ==
    \E i \in 1..Len(m.sessions) :
        m.sessions[i].Kind = sMain \/ HasSuffix(m.sessions[i].Key, sColonMain)

\* the step puts exactly one more command in flight: a spawn carrying the
\* prompt, the selected model and the label of the form
OneSpawnIssued ==
    \E c \in SpawnsIn(inflight') :
        /\ inflight' = inflight (+) SetToBag({c})
        /\ c.p[2] = m.spawnPrompt.v
        /\ c.p[3] = SpawnModelID(m)
        /\ c.p[4] = m.spawnLabel.v

C8_SpawnEnterRejects ==
    [][((m.spawnPrompt.v = <<>> \/ ~MainSessionExists) /\ SpawnEnterStep) =>
           /\ inflight' = inflight
           /\ m'.lastError \in {"prompt is required", "no main session found"}
           /\ m'.spawnSpinning = m.spawnSpinning
           /\ ModesOf(m') = {"spawning"}]_vars

\* C8: Enter was rejected for want of a main session while an earlier
\* spawn was still spinning
C8_Witness ==
    /\ m.spawning
    /\ m.spawnSpinning
    /\ m.spawnPrompt.v # <<>>
    /\ m.sessions # <<>>
    /\ m.lastError = "no main session found"

\* the step puts a command of the kind in flight
Issues(kind) ==
    \E c \in KindIn(inflight', kind) : CopiesIn(c, inflight') > CopiesIn(c, inflight)

\* a key of the set handled by the message input
MsgKeyStep(ks) == m.messaging /\ \E k \in ks : KeyMessaging(k, MsgEnv)

\* the session id of the session under the cursor of the session list
SelectedSessionID(mm) == filteredSessions(mm)[mm.sessionCursor + 1].SessionID

\* C9: a send intent is issued exactly when Enter is pressed in Messaging
\* with non-empty text; it carries that text to the session id that was
\* under the cursor when Messaging was entered, whatever the polls did to
\* the session list since; the mode returns to Normal and sending becomes
\* true.  Enter with empty text, or Escape, returns to Normal with no
\* intent and sending unchanged.
C9_SendOnEnter ==
    [][/\ Issues("send") <=> (m.msgInput.v # <<>> /\ MsgKeyStep(keys.Enter))
       /\ (m.msgInput.v # <<>> /\ MsgKeyStep(keys.Enter)) =>
              /\ inflight' = inflight (+) SetToBag({Cmd("send", <<m.msgTarget, m.msgInput.v>>)})
              /\ ModesOf(m') = {}
              /\ m'.sending
       /\ ((m.msgInput.v = <<>> /\ MsgKeyStep(keys.Enter)) \/ MsgKeyStep(keys.Escape)) =>
              /\ inflight' = inflight
              /\ ModesOf(m') = {}
              /\ m'.sending = m.sending
       /\ (~m.messaging /\ m'.messaging) => m'.msgTarget = SelectedSessionID(m)
       /\ (m.messaging /\ m'.messaging) => m'.msgTarget = m.msgTarget]_vars

\* C9: a message is on its way to a session that a poll has since removed
\* from the list, and the mode is Normal again
C9_Witness ==
    /\ ModesOf(m) = {}
    /\ m.sending
    /\ m.sessions # <<>>
    /\ \E c \in KindIn(inflight, "send") :
          /\ c.p[1] = m.msgTarget
          /\ c.p[1] # <<>>
          /\ c.p[2] # <<>>
          /\ \A i \in 1..Len(m.sessions) : m.sessions[i].SessionID # c.p[1]

\* a key of the set handled by the kill confirmation
ConfirmKeyStep(ks) == m.confirming /\ \E k \in ks : KeyConfirming(k, KillEnv)

\* C10: in Confirming, 'y' issues exactly one kill intent for the stored
\* target and returns to Normal; 'n' or Escape returns to Normal, issues no
\* intent and changes nothing but the mode and the stored target; any other
\* key leaves the mode Confirming and the target unchanged.
C10_ConfirmKill ==
    [][/\ ConfirmKeyStep(keys.ConfirmY) =>
              /\ inflight' = inflight (+) SetToBag({Cmd("kill", <<m.confirmTarget>>)})
              /\ ModesOf(m') = {}
       /\ ConfirmKeyStep(keys.ConfirmN \cup keys.Escape) =>
              /\ inflight' = inflight
              /\ quit' = quit
              /\ ModesOf(m') = {}
              /\ [m' EXCEPT !.confirming = TRUE, !.confirmTarget = m.confirmTarget] = m
       /\ ConfirmKeyStep(Keys \ (keys.ConfirmY \cup keys.ConfirmN \cup keys.Escape)) =>
              /\ ModesOf(m') = {"confirming"}
              /\ m'.confirmTarget = m.confirmTarget
              /\ inflight' = inflight]_vars

\* C10: the kill of a process is in flight after 'y', the mode is Normal,
\* and a poll has since dropped the process from the list
C10_Witness ==
    /\ ModesOf(m) = {}
    /\ m.confirmTarget = <<>>
    /\ m.activeTab = tabProcesses
    /\ \E c \in KindIn(inflight, "kill") :
          /\ c.p[1] # <<>>
          /\ \A i \in 1..Len(m.processes) : m.processes[i].SessionName # c.p[1]

\* the session cursor is on an item of the filtered session list, on the
\* sessions tab
OnSession ==
    m.activeTab = tabSessions /\ m.sessionCursor < Len(filteredSessions(m))

\* the process cursor is on an item of the filtered process list, on the
\* processes tab
OnProcess ==
    m.activeTab = tabProcesses /\ m.processCursor < Len(filteredProcesses(m))

\* the step changes nothing
NothingChanges == m' = m /\ inflight' = inflight /\ quit' = quit

\* C11: from Normal, the message key enters Messaging only if the sessions
\* tab is active and the session cursor is on an item of the filtered
\* session list, and the kill key enters Confirming only if the processes
\* tab is active and the process cursor is on a filtered process; a key
\* that does not enter its mode changes no state.
C11_KeysNeedAnItem ==
    [][/\ \/ (/\ m'.messaging => OnSession
              /\ ~m'.messaging => NothingChanges)
          \/ ~(\E k \in keys.Message : KeyNormal(k, SelectEnv))
       /\ \/ (/\ m'.confirming => OnProcess
              /\ ~m'.confirming => NothingChanges)
          \/ ~(\E k \in keys.Kill : KeyNormal(k, SelectEnv))]_vars

\* C11: the kill key has taken the second process as its target after the
\* message key had taken a session further down the list
C11_Witness ==
    /\ m.confirming
    /\ m.confirmTarget = <<"p", "2">>
    /\ m.msgTarget # <<>>
    /\ m.sessionCursor > 0

\* C12: after every event the active filter is the text of the search
\* field: in Searching a key other than Escape and Enter updates the field
\* and the filter together and stays in Searching, Enter keeps the field's
\* text as the filter and returns to Normal, Escape empties both and
\* returns to Normal.
C12_FilterIsSearchText ==
    /\ [](m.filter = m.searchInput.v)
    /\ [][\A k \in Keys :
            \/ (/\ m'.filter = m'.searchInput.v
                /\ k \in keys.Escape =>
                       m'.filter = <<>> /\ ModesOf(m') = {}
                /\ k \in keys.Enter =>
                       m'.filter = m.searchInput.v /\ ModesOf(m') = {}
                /\ k \notin (keys.Escape \cup keys.Enter) =>
                       /\ m'.searchInput.v = TextUpdate(m.searchInput, k, searchCharLimit).v
                       /\ ModesOf(m') = {"searching"})
            \/ ~KeySearching(k, SelectEnv)]_vars

\* C12: Enter has committed a text that narrows the session list
C12_Witness ==
    /\ ~m.searching
    /\ m.filter # <<>>
    /\ m.filter = m.searchInput.v
    /\ Len(filteredSessions(m)) < Len(m.sessions)

\* the commands a key makes its handler return
KeyCmds(k) ==
    {handleKey(m, k).cmds[i].c : i \in 1..Len(handleKey(m, k).cmds)}

\* C13: from each of Searching, Messaging, Spawning and Confirming one
\* Escape returns the mode to Normal and issues no send, spawn or kill
\* intent, in every state in which the mode is active, a spawn in flight
\* included.
C13_EscapeLeavesMode ==
    [][\A k \in keys.Escape :
          \/ ModesOf(m) = {}
          \/ (/\ ModesOf(m') = {}
              /\ KeyCmds(k) \cap {"send", "spawn", "kill"} = {}
              /\ inflight' = inflight)
          \/ ~KeyMsg(k, SpecEnv)]_vars

\* C13: the spawn form was left with Escape while its spawn is in flight
C13_Witness ==
    /\ ModesOf(m) = {}
    /\ m.spawnSpinning
    /\ SpawnsIn(inflight) # {}
    /\ m.spawnPrompt.v = <<>>

\* a key of the set ks is handled in Normal mode with the log panel active
LogPanelKeyStep(ks) ==
    m.activePanel = panelLogs /\ \E k \in ks : KeyNormal(k, LogEnv)

\* C14: a scroll-up or page-up key handled in Normal mode with the log
\* panel active always turns follow off, and never increases the scroll
\* offset or makes it negative.
C14_UpStopsFollow ==
    [][\/ (/\ ~m'.logFollow
           /\ m'.logScrollPos <= m.logScrollPos
           /\ m'.logScrollPos >= 0)
       \/ ~LogPanelKeyStep(keys.Up \cup keys.PageUp)]_vars

\* C14: the log was scrolled up from the bottom to a line between the top
\* and the bottom, and follow is off
C14_Witness ==
    /\ m.activePanel = panelLogs
    /\ ~m.logFollow
    /\ m.logScrollPos > 0
    /\ m.logScrollPos < maxLogScroll(m, logWidth(m)) - 1

\* C15: a scroll-down or page-down key in the log panel turns follow on
\* once the resulting offset is the maximum scroll offset or one line
\* above it, leaves follow as it was otherwise, and never leaves the scroll
\* offset above the maximum scroll offset.
C15_DownResumesFollow ==
    [][\/ (LET mx == maxLogScroll(m', logWidth(m'))
           IN  /\ m'.logScrollPos <= mx
               /\ m'.logScrollPos >= mx - 1 => m'.logFollow
               /\ m'.logScrollPos < mx - 1 => m'.logFollow = m.logFollow)
       \/ ~LogPanelKeyStep(keys.Down \cup keys.PageDown)]_vars

\* C15: scrolling down has turned follow on again one line above the
\* bottom of a log of several screens
C15_Witness ==
    /\ m.activePanel = panelLogs
    /\ m.logFollow
    /\ maxLogScroll(m, logWidth(m)) >= 2
    /\ m.logScrollPos = maxLogScroll(m, logWidth(m)) - 1

\* the log tick's handler returns a log fetch, the last logsMsg being
\* since seconds old
TickFetches(since) ==
    \E i \in 1..Len(UpdateTickLogs(m, since).cmds) :
        UpdateTickLogs(m, since).cmds[i].c = "fetchLogs"

\* C16: a log tick issues a log fetch only if an item is selected and
\* follow is on; with no selection or with follow off a log tick issues no
\* fetch, however old the last result is.
C16_TickFetchNeedsFollow ==
    /\ [](\A since \in 0..LogThrottle :
             TickFetches(since) => (m.selectedLogID # <<>> /\ m.logFollow))
    /\ [][\/ (m.selectedLogID # <<>> /\ m.logFollow)
          \/ (inflight' = inflight /\ sinceLogIssue' = sinceLogIssue)
          \/ ~TickLogsMsg(LogEnv)]_vars

\* C16: follow is off on a selected item whose last result is as old as
\* the throttle asks, and no fetch is in flight
C16_Witness ==
    /\ m.selectedLogID # <<>>
    /\ ~m.logFollow
    /\ m.logContent # EmptyContent
    /\ sinceLogFetch = LogThrottle
    /\ sinceLogIssue = LogThrottle
    /\ KindIn(inflight, "fetchLogs") = {}

\* a step issues a log fetch
LogFetchIssued ==
    /\ sinceLogIssue' = 0
    /\ \E c \in KindIn(inflight', "fetchLogs") :
           CopiesIn(c, inflight') > CopiesIn(c, inflight)

\* C17: any two consecutive log fetches are issued at least 2 seconds
\* apart, however many log ticks fire, however often items are selected
\* and however long the results take.
C17_FetchesThrottled ==
    [][LogFetchIssued => sinceLogIssue >= LogThrottle]_vars

\* the error texts of the model
ErrTexts == PollErrors \cup {ErrText(kind) : kind \in {"send", "spawn", "fetchLogs"}}

\* an error with the text arrives: of a poll, or of a command in flight
ErrStep(text) ==
    \/ PollErrMsg(text)
    \/ \E c \in BagToSet(inflight) : ErrText(c.c) = text /\ IntentErrMsg(c)

\* what an error leaves alone: the lists, the log, its scroll offset and
\* follow flag, the cursors, the filter and the mode
KeptByErr(mm) ==
    << mm.sessions, mm.processes, mm.archived, mm.logContent, mm.logScrollPos,
       mm.logFollow, mm.sessionCursor, mm.processCursor, mm.historyCursor,
       mm.filter, ModesOf(mm) >>

\* C18: an error result of a fetch, a send or a spawn sets sending and
\* spinning to false and lastError to the error's text, and leaves the
\* session, process and archived lists, the log content, the scroll
\* offset, the follow flag, the cursors, the filter and the mode as they
\* are.
C18_ErrorClearsFlags ==
    [][\A text \in ErrTexts :
          \/ (/\ ~m'.sending
              /\ ~m'.spawnSpinning
              /\ m'.lastError = text
              /\ KeptByErr(m') = KeptByErr(m))
          \/ ~ErrStep(text)]_vars

\* C18: a spawn has failed while the form is open: its error is shown, the
\* spinner is gone, the form still holds the prompt and the log still holds
\* the reply to a message
C18_Witness ==
    /\ m.spawning
    /\ ~m.spawnSpinning
    /\ ~m.sending
    /\ m.spawnPrompt.v # <<>>
    /\ m.lastError = ErrText("spawn")
    /\ m.logContent # EmptyContent

\* the program has ended: the runtime was asked to quit, or View panicked
Terminated == quit \/ ViewPanics(m)

\* C19: the loop ends only on the quit key pressed in Normal mode: no
\* error and no other sequence of events and renders ends or crashes the
\* program.
C19_OnlyQuitTerminates ==
    [][(~Terminated /\ Terminated') =>
          /\ ~ViewPanics(m')
          /\ ~m.searching /\ ~m.messaging /\ ~m.spawning /\ ~m.confirming
          /\ \E k \in keys.Quit : KeyNormal(k, ViewEnv)]_vars

\* the texts in flight to be compressed
CompressInputs == {c.p : c \in {d \in BagToSet(inflight) : d.c = "compress"}}

\* C20: compressLogContent is idempotent: whenever the panel holds the
\* compression of a cleaned text (any mix of role banners, planning filler,
\* blank lines and ordinary lines), compressing the panel's text again
\* gives the same text.
C20_CompressIdempotent ==
    \A x \in CompressInputs :
        m.logContent = compressLogContent(x) =>
            compressLogContent(m.logContent) = m.logContent

\* C20: the panel holds the compression of a text with an ordinary line, a
\* role banner between two blank lines and planning filler: the blank lines
\* around the banner are one, and the banner and the filler are gone
C20_Witness ==
    /\ CompressInputs = {<<la, Blank, lHdrUser, lSpace, lFiller>>}
    /\ m.logContent = <<la, Blank>>

\* the characters of a text
Chars(s) == {s[i] : i \in 1..Len(s)}

\* the text holds a CSI sequence: ESC [, parameter bytes (0x30-0x3f) and a
\* letter as final byte
HasCSI(s) ==
    \E i \in 1..Len(s), j \in 1..Len(s) :
        /\ i + 1 < j
        /\ s[i] = "ESC"
        /\ s[i + 1] = "["
        /\ \A k \in (i + 2)..(j - 1) : s[k] \in Digits \cup {";", "?"}
        /\ s[j] \in AsciiLetters

\* the text holds an OSC sequence: ESC ], a text without control bytes,
\* and BEL or ESC \ as terminator
HasOSC(s) ==
    \E i \in 1..Len(s), j \in 1..Len(s) :
        /\ i + 1 < j
        /\ s[i] = "ESC"
        /\ s[i + 1] = "]"
        /\ \A k \in (i + 2)..(j - 1) : s[k] \notin {"ESC", "BEL", "CR"}
        /\ \/ s[j] = "BEL"
           \/ j < Len(s) /\ s[j] = "ESC" /\ s[j + 1] = "\\"

\* C21: for any input containing ANSI CSI or OSC escape sequences, the
\* output of cleanLogContent contains no ESC (0x1b) byte.
C21_NoEscAfterClean ==
    \A c \in BagToSet(inflight) :
        (c.c = "cleaned" /\ (HasCSI(c.p[1]) \/ HasOSC(c.p[1]))) =>
            "ESC" \notin Chars(c.p[2])

\* the formatted texts in flight: messages, verbosity and output
Formatted == {c.p : c \in {d \in BagToSet(inflight) : d.c = "formatted"}}

\* the lines of the texts of the user and assistant messages, in order
ChatText(msgs) ==
    FlattenSeq([i \in 1..Len(msgs) |->
                   IF msgs[i].Role \in {"user", "assistant"} THEN msgs[i].Text ELSE <<>>])

IsChatLine(l) == l.k = "text" /\ l # Blank

\* a line a tool message gives: a banner of a tool role, a summary line
\* and what follows it
IsToolLine(l) ==
    \/ l.k \in {"tool_ok", "tool_err", "summary_rest", "errtext", "ellipsis"}
    \/ l.k = "banner" /\ l.t \in {"TOOLUSE", "TOOLRESULT", "TOOL"}

\* C22: at verbosity Off the formatted output holds the text of every user
\* and assistant message in message order, and no line of a tool-call or
\* tool-result message.
C22_OffShowsChatOnly ==
    \A f \in Formatted :
        f[2] = VerboseOff =>
            /\ SelectSeq(f[3], IsChatLine) = ChatText(f[1])
            /\ \A i \in 1..Len(f[3]) : ~IsToolLine(f[3][i])

\* C22: a user message, a tool call, its result and an assistant message
\* were formatted at Off: the output holds the two texts and their banners
C22_Witness ==
    \E f \in Formatted :
        /\ f[2] = VerboseOff
        /\ f[1] = << UserMsg(<<la>>), ToolUseMsg("exec", "cmd"),
                     ToolResultMsg("exec", "", <<lc>>, FALSE), AssistantMsg(<<lb>>) >>
        /\ SelectSeq(f[3], IsChatLine) = <<la, lb>>
        /\ Len(f[3]) = 7

\* the kinds of the lines a tool result gives at Summary: one summary line
\* and, on error, the first 6 lines of its error text and an ellipsis when
\* the text has more
ResultKinds(msg) ==
    <<IF msg.ToolError THEN "tool_err" ELSE "tool_ok">>
    \o (IF msg.ToolError
        THEN [i \in 1..min(6, Len(msg.Text)) |-> "errtext"]
             \o (IF Len(msg.Text) > 6 THEN <<"ellipsis">> ELSE <<>>)
        ELSE <<>>)

\* the kinds of the lines of a message list at Summary, message by
\* message: a tool call gives no line, a user or assistant message its
\* banner and text and a blank line
SummaryKinds(msgs) ==
    FlattenSeq([i \in 1..Len(msgs) |->
                   IF msgs[i].Role = "toolUse" THEN <<>>
                   ELSE IF IsToolRole(msgs[i].Role) THEN ResultKinds(msgs[i])
                   ELSE <<"banner">> \o [j \in 1..Len(msgs[i].Text) |-> "text"] \o <<"text">>])

\* C23: at verbosity Summary each tool-result message gives exactly one
\* summary line (followed, on error, by at most the first 6 lines of its
\* error text and an ellipsis line when the text has more than 6 lines),
\* tool-call messages give no line of their own, and the summary lines
\* stand in message order before the next user or assistant block.
C23_SummaryOneLinePerResult ==
    \A f \in Formatted :
        f[2] = VerboseSummary =>
            [i \in 1..Len(f[3]) |-> f[3][i].k] = SummaryKinds(f[1]) \o <<"text">>

\* the wrapped contents in flight: content, width, the renderer's rows and
\* the count of maxLogScroll
Wrapped == {c.p : c \in {d \in BagToSet(inflight) : d.c = "wrapped"}}

\* the chunks are the raw line of n bytes cut in order: the first starts
\* at its first byte, each starts where the one before ends, the last ends
\* at its last byte
CoversInOrder(chunks, n) ==
    /\ chunks[1].from = 0
    /\ chunks[Len(chunks)].to = n
    /\ \A i \in 1..(Len(chunks) - 1) : chunks[i + 1].from = chunks[i].to

RECURSIVE SumOfLens(_)
SumOfLens(rows) == IF rows = <<>> THEN 0 ELSE Len(Head(rows)) + SumOfLens(Tail(rows))

\* C24: wrapping a raw line of length L at width W > 0 gives
\* max(1, ceil(L/W)) chunks of at most W characters whose concatenation in
\* order is the line (200 characters at width 40 give 5 wrapped lines), and
\* the wrapped-line count of maxLogScroll is the number of wrapped lines the
\* renderer produces.
C24_WrapChunks ==
    \A w \in Wrapped :
        LET content == w[1]
            W == w[2]
            rows == w[3]
        IN  /\ \A i \in 1..Len(content) :
                   /\ Len(rows[i]) = max(1, (content[i].n + W - 1) \div W)
                   /\ \A j \in 1..Len(rows[i]) :
                          /\ rows[i][j].to - rows[i][j].from <= W
                          /\ rows[i][j].to >= rows[i][j].from
                   /\ CoversInOrder(rows[i], content[i].n)
            /\ w[4] = SumOfLens(rows)

\* C24: a line of 200 bytes was wrapped at width 40 into 5 rows, and
\* maxLogScroll counts 5
C24_Witness ==
    \E w \in Wrapped :
        /\ w[1] = <<TextLine("raw", 200)>>
        /\ w[2] = 40
        /\ Len(w[3][1]) = 5
        /\ w[4] = 5

\* the three cursors
Cursors(mm) == <<mm.sessionCursor, mm.processCursor, mm.historyCursor>>

\* C25: in Normal mode with the list panel active, an up or down key moves
\* the active tab's cursor by one, clamped to [0, filteredListLength-1]; on
\* an empty filtered list the cursor stays as it is.
C25_CursorMovesClamped ==
    [][\A k \in keys.Up \cup keys.Down :
          \/ LET len == filteredListLen(m)
                 moved == currentCursor(m) + (IF k \in keys.Up THEN -1 ELSE 1)
             IN  /\ m'.activeTab = m.activeTab
                 /\ IF len = 0 THEN Cursors(m') = Cursors(m)
                    ELSE /\ currentCursor(m') = min(max(moved, 0), len - 1)
                         /\ Cursors(m') = Cursors(setCursor(m, currentCursor(m')))
          \/ ~(m.activePanel = panelList /\ KeyNormal(k, KillEnv))]_vars

\* C25: the process cursor has moved down to the last of two processes, and
\* the session cursor to the last of two sessions
C25_Witness ==
    /\ m.activeTab = tabProcesses
    /\ m.activePanel = panelList
    /\ Len(filteredProcesses(m)) = 2
    /\ m.processCursor = 1
    /\ m.sessionCursor = 1

\* the filtered lists in flight: sessions, filter text and result
Filtered == {c.p : c \in {d \in BagToSet(inflight) : d.c = "filtered"}}

\* the lower-cased filter text is a substring of the lower-cased key,
\* model, kind, display name, label or channel of the session
SessionMatches(s, f) ==
    \E field \in {s.Key, s.Model, s.Kind, s.DisplayName, s.Label, s.Channel} :
        Contains(ToLower(field), ToLower(f))

\* C26: filteredSessions returns, in original order, exactly the sessions
\* for which the lower-cased filter text is a substring of the lower-cased
\* key, model, kind, display name, label or channel, and all sessions when
\* the filter is empty (the filter "sig" over sessions of the channels
\* signal and matrix gives exactly the first).
C26_FilterBySubstring ==
    \A x \in Filtered :
        LET Hit(s) == SessionMatches(s, x[2])
        IN  /\ x[2] = <<>> => x[3] = x[1]
            /\ x[2] # <<>> => x[3] = SelectSeq(x[1], Hit)
            /\ (x[1] = <<SessSignal, SessMatrix>> /\ x[2] = sSig) => x[3] = <<SessSignal>>

\* C26: the filter "sig" was applied to the sessions of the channels
\* signal and matrix, and gave the first
C26_Witness ==
    \E x \in Filtered :
        /\ x[1] = <<SessSignal, SessMatrix>>
        /\ x[2] = sSig
        /\ x[3] = <<SessSignal>>

\* the session ids of the transcripts on disk that belong to no active
\* session: the .jsonl files of the directory, by their base names
ArchivedIDs(activeSessions, dir) ==
    IF ~dir.ok THEN {}
    ELSE {TrimSuffix(e.Name, sJsonl) :
             e \in {d \in dir.entries :
                       /\ ~d.IsDir
                       /\ ~d.Gone
                       /\ HasSuffix(d.Name, sJsonl)
                       /\ \A i \in 1..Len(activeSessions) :
                              activeSessions[i].SessionID # TrimSuffix(d.Name, sJsonl)}}

\* the list holds one run for each id of the set, newest first
OneRunEach(runs, ids) ==
    /\ {runs[i].SessionID : i \in 1..Len(runs)} = ids
    /\ Len(runs) = Cardinality(ids)
    /\ \A i, j \in 1..Len(runs) : i < j => runs[i].ModifiedAt >= runs[j].ModifiedAt

\* C27: the archived-run list holds exactly one run for each .jsonl
\* transcript on disk whose base name is not the session id of an active
\* session (active ids {a} and the files a.jsonl, b.jsonl give one run, for
\* b), ordered by modification time newest first, and it is recomputed
\* after every successful sessions refresh.
C27_ArchivedRuns ==
    [][/\ \A c \in BagToSet(inflight), dir \in ArchDirs :
              \/ OneRunEach(m'.archived, ArchivedIDs(c.p[1], dir))
              \/ ~ArchivedFetched(c, dir)
       /\ \A ss \in ArchSessions :
              \/ (/\ m'.sessions = ss
                  /\ inflight' = inflight (+) SetToBag({Cmd("fetchArchived", <<ss>>)}))
              \/ ~SessionsRefresh(ss, ArchEnv)]_vars

\* C27: the session "a" is active, and the fetch its refresh started has
\* read a.jsonl and b.jsonl: the list holds one run, for b
C27_Witness ==
    /\ m.sessions = <<SessA>>
    /\ Len(m.archived) = 1
    /\ m.archived[1].SessionID = <<"b">>
    /\ m.archived[1].Path = <<"/", "b">> \o sJsonl
    /\ inflight = EmptyBag

\* the parsed record lists in flight: records, format and messages
Parsed == {c.p : c \in {d \in BagToSet(inflight) : d.c = "parsed"}}

\* what a message is: a tool call of a name, or a role with a text
Shape(msg) ==
    IF msg.Role = "toolUse" THEN <<"toolUse", msg.ToolName>> ELSE <<msg.Role, msg.Text>>

\* the messages of a record: an assistant record gives one tool call per
\* tool-call block in block order, then its text if it has one, and one
\* empty assistant message if it has neither; any other record gives one
\* message
RecordShape(r) ==
    IF r.role = "assistant"
    THEN [i \in 1..Len(r.calls) |-> <<"toolUse", r.calls[i].Name>>]
         \o (IF r.text # <<>> \/ r.calls = <<>> THEN <<<<"assistant", r.text>>>> ELSE <<>>)
    ELSE <<<<r.role, r.text>>>>

\* C28: an assistant record with k tool-call blocks and a text gives k
\* tool-call messages in block order and then one assistant text message;
\* with tool calls and no text only the k tool-call messages; with neither
\* exactly one empty assistant message; in the history-API format and in
\* the transcript-file format alike.
C28_AssistantRecordMessages ==
    \A x \in Parsed :
        [i \in 1..Len(x[3]) |-> Shape(x[3][i])]
            = FlattenSeq([i \in 1..Len(x[1]) |-> RecordShape(x[1][i])])

\* the model selector index is a valid index of the option list
SelectorInRange(mm) ==
    0 <= mm.spawnModelCursor /\ mm.spawnModelCursor < Len(mm.spawnModelOptions)

\* C29: in every reachable state 0 <= spawnModelCursor < len(spawnModelOptions),
\* also after a model-list result replaced the options, and Up/Down on the
\* focused Model field move the index by one, wrapping around at both ends.
C29_SelectorInRange ==
    /\ []SelectorInRange(m)
    /\ [][\A k \in keys.Up \cup keys.Down :
            \/ LET n == Len(m.spawnModelOptions)
                   delta == IF k \in keys.Up THEN n - 1 ELSE 1
               IN  /\ m'.spawnModelCursor = (m.spawnModelCursor + delta) % n
                   /\ m'.spawnModelOptions = m.spawnModelOptions
            \/ ~(m.spawnField = spawnFieldModel /\ KeySpawning(k, SpawnEnv))]_vars

\* C29: a model list of two models has replaced the options, and on the
\* focused Model field the index has been moved to the last of the three
C29_Witness ==
    /\ m.spawning
    /\ m.spawnField = spawnFieldModel
    /\ Len(m.spawnModelOptions) = 3
    /\ m.spawnModelCursor = 2

\* the content and the width a frame's log panel is wrapped for; <<>> for a
\* frame that shows no log text
WrapKey(mm) ==
    IF View(mm).shown THEN <<mm.logContent, logWidth(mm)>> ELSE <<>>

\* C30: the wrapped lines are computed again only when the content or the
\* viewport width differs from those of the last computation: the runtime
\* renders a frame after every update, and a frame whose content and width
\* are those of the frame before it does not run the wrap computation.
C30_WrapOncePerKey ==
    [][\/ ~View(m').rewrapped
       \/ WrapKey(m) = <<>>
       \/ WrapKey(m') # WrapKey(m)]_vars

\* what the cache would do if the Model the frame wrote to were kept:
\* the frame after it, on the same content and width, does not wrap again
CacheWorksOnCopy ==
    LET first == View(m)
    IN  first.rewrapped =>
            /\ ~View(first.m).rewrapped
            /\ first.m.wrappedLines = WrapContent(m.logContent, logWidth(m))

\* the display buffer as Enter on an item leaves it: a selection, no
\* content, follow on, the scroll position at the top
JustSelected(mm) ==
    /\ mm.selectedLogID # <<>>
    /\ mm.logContent = EmptyContent
    /\ mm.logFollow
    /\ mm.logScrollPos = 0

\* C31: after Enter has selected an item, when the result of the fetch for
\* that selection arrives with a content that is not empty, the buffer's
\* content is the fetched content, follow is on and the scroll position is
\* the maximum scroll offset, whatever was displayed before the selection.
C31_SelectionShowsFetched ==
    [][\A c \in BagToSet(inflight), raw \in RawContents :
          \/ /\ m'.logContent = cleanLogContent(raw)
             /\ m'.logFollow
             /\ m'.logScrollPos = maxLogScroll(m', logWidth(m'))
          \/ ~(/\ JustSelected(m)
               /\ c.c = "fetchLogs"
               /\ c.p[1] = m.selectedLogID
               /\ c.p[2] = m.selectedLogTab
               /\ cleanLogContent(raw) # EmptyContent
               /\ RawLogsMsg(c, raw))]_vars

\* C32: in every reachable state the stored fingerprint is the hash of the
\* log content the buffer holds, or no content has been applied yet; so an
\* update is skipped as unchanged only when its content is the one displayed.
C32_HashOfContent ==
    \/ m.logContentHash = NewModel.logContentHash
    \/ m.logContentHash = Sha256(m.logContent)

\* C33: in every reachable state 0 <= logScrollPos <= maxLogScroll for the
\* current content, width, height and query line, under log updates, window
\* resizes, re-renders, agent replies and scroll keys.
C33_ScrollInRange ==
    /\ 0 <= m.logScrollPos
    /\ m.logScrollPos <= maxLogScroll(m, logWidth(m))

\* the cursor c is an index of a list of n items, or the list is empty
CursorOnItem(c, n) == n > 0 => (0 <= c /\ c < n)

\* C34: in every reachable state each tab's cursor is a valid index into
\* that tab's filtered list whenever the list is not empty, under polls
\* that shrink the list, filter edits and navigation keys.
C34_CursorsOnItems ==
    /\ CursorOnItem(m.sessionCursor, Len(filteredSessions(m)))
    /\ CursorOnItem(m.processCursor, Len(filteredProcesses(m)))
    /\ CursorOnItem(m.historyCursor, Len(filteredArchived(m)))

\* the pending timers of a poll class
PendingTimers(kind) == CountOf(inflight, {kind})

\* C35: each poll class (sessions, processes, health, logs) has at most one
\* pending tick timer at any time; selecting items with Enter or confirming
\* kills does not add timers.
C35_OneTimerPerClass == \A kind \in TimerKinds : PendingTimers(kind) <= 1

\* C36: while spinning is true (a spawn intent is in flight and no result
\* has arrived), no step issues a further spawn intent, whatever the key.
C36_NoSpawnWhileSpinning ==
    [][(m.spawnSpinning /\ SpawnsIn(inflight) # {}) => ~Issues("spawn")]_vars

\* C37: the model a spawn intent carries is the option the user last
\* selected in the Model field: a model-list result that arrives after the
\* form was opened does not change or reset the selection made in it.
C37_ModelListKeepsSelection ==
    [][\A c \in BagToSet(inflight), models \in ModelLists :
          \/ SpawnModelID(m') = SpawnModelID(m)
          \/ ~(m.spawning /\ ModelListMsg(c, models))]_vars

\* lines 225-227: the content the fetch path makes of messages at a verbosity
FetchPathContent(msgs, verbose) ==
    compressLogContent(cleanLogContent(FormatHistory(msgs, verbose)))

\* C38: for the same cached messages and verbosity, the content the
\* verbosity-key or source-filter re-render produces is the content the
\* fetch path produces (format, clean, compress), so a poll that returns
\* the same messages does not change the displayed content.
C38_ReRenderIsFetchContent ==
    [][\A k \in keys.Verbose \cup keys.SourceFilter :
          \/ m'.logContent = FetchPathContent(m'.cachedMessages, m'.verboseLevel)
          \/ ~(/\ Len(m.cachedMessages) > 0
               /\ m.selectedLogTab # tabProcesses
               /\ KeyNormal(k, NormEnv))]_vars

\* the log panel shows the transcript of the session with the session id
Displays(mm, sessionID) ==
    /\ mm.selectedLogTab = tabSessions
    /\ \E i \in 1..Len(mm.sessions) :
          /\ mm.sessions[i].Key = mm.selectedLogID
          /\ mm.sessions[i].SessionID = sessionID

\* C39: an agent reply is appended to the display buffer only if the
\* transcript displayed belongs to the session the message was sent to; a
\* reply for a session never alters the displayed log of another session,
\* of a process or of an archived run.
C39_ReplyOnlyToItsSession ==
    [][\A c \in BagToSet(inflight), reply \in Replies :
          \/ m'.logContent = m.logContent
          \/ ~(/\ c.c = "send"
               /\ m.selectedLogID # <<>>
               /\ ~Displays(m, c.p[1])
               /\ AgentReplyMsg(c, reply, ReplyEnv))]_vars

\* a transcript is selected, follow is on, and the last log fetch was not
\* issued just now
FollowingIdle ==
    m.selectedLogID # <<>> /\ m.logFollow /\ sinceLogIssue > 0

\* a log fetch has just been issued
FetchJustIssued == sinceLogIssue = 0

\* C40: while a transcript is selected, once follow is on again (by the
\* follow key or by scrolling to the bottom) the periodic refresh resumes:
\* with timers that fire and fetches that are answered, a log fetch is
\* eventually issued, unless follow is switched off again first.
C40_FollowResumesRefresh ==
    FollowingIdle ~> (FetchJustIssued \/ ~m.logFollow)

\* C40: follow is on with content on display, scrolled down; the last log
\* arrived LogThrottle seconds ago or earlier, and a log timer has just
\* issued a fetch that is in flight
C40_Witness ==
    /\ m.selectedLogID # <<>>
    /\ m.logFollow
    /\ m.logContent # EmptyContent
    /\ m.logScrollPos > 0
    /\ sinceLogFetch = LogThrottle
    /\ sinceLogIssue = 0
    /\ KindIn(inflight, "fetchLogs") # {}
    /\ KindIn(inflight, "tickLogs") # {}
=============================================================================
